---- MODULE Spec2Model ----
(***************************************************************************)
(* Scrappy v2.0 scraping engine: the per-user browser session pool, the    *)
(* scrape-async orchestrator with its background task, the progress        *)
(* tracker and the progress the pipeline emits.                            *)
(*                                                                         *)
(* Every await of the Python code is a step boundary; the statements       *)
(* between two awaits of one coroutine form one step (asyncio runs them    *)
(* without interleaving).  Awaits made while holding the pool lock are     *)
(* folded into the step that holds the lock when no other coroutine can    *)
(* observe the intermediate state through the lock.                        *)
(***************************************************************************)
EXTENDS Integers, Sequences, FiniteSets, TLC

\* ------------------------------------------------------------------ bounds
NumUsers == 3
max_sessions == 2
MaxLeaked == 1
MaxRequests == 3
MaxTrackerIds == 2
MaxTarget == 3
MaxScrolls == 6
MaxNewCards == 2
TickMinutes == 90
MaxNow == 200
NumPlaces == 4
MaxRows == 2
CursorTickDays == 15
MaxCursorDays == 45
MaxFed == 3
MaxCards == 3
MaxConcurrent == 2
MaxScraped == 3
MaxSizedTarget == 800
MaxPad == 2

\* program constants of the pool singleton
idle_timeout_minutes == 30
session_max_age_minutes == 120

Users == 1..NumUsers
ContextIds == 1..(max_sessions + MaxLeaked)

\* coroutines that take the pool lock besides the users' requests
CleanupProc == 0
ShutdownProc == NumUsers + 1

VARIABLES
    \* ---- BrowserSessionPool
    sessions,        \* self.sessions: user_id -> UserSession
    playwright,      \* self.playwright is set
    browser,         \* self.browser is set
    shutdown_flag,   \* self._shutdown
    lock,            \* holder of self.lock (a set of at most one coroutine)
    waiters,         \* FIFO queue of coroutines waiting for self.lock
    cleanup_task,    \* state of the task created by initialize()
    contexts_open,   \* browser contexts currently open in the browser
    pages_open,      \* pages currently open
    now,             \* datetime.utcnow(), in minutes
    pc,              \* position of each user's pool request
    result,          \* outcome of each user's last get_session
    life,            \* position of the application lifespan coroutine
    issued,          \* number of pool requests the routes have issued
    \* ---- ScrapeProgressTracker
    active_scrapes,  \* self.active_scrapes: scrape_id -> ProgressData
    \* ---- scrape-async and its background tasks
    task_pc,         \* position of each background task
    persisted,       \* scrape id -> what the task recorded: places, cursor, session
    task_exc,        \* exception propagating out of the task's async with
    task_results,    \* records scraper.scrape returned to the task
    op_failed,       \* a browser operation of the task raised
    scraper_browser, \* the task's own GoogleMapsScraper has a browser running
    db_up,           \* the database answers (an input of the run)
    task_args,       \* what scrape-async handed to each background task
    task_origin,     \* scroll position each task's pipeline began collecting at
    \* ---- the database tables behind HistoryService and CursorManager
    user_places,     \* rows of user_places
    cursors,         \* rows of scrape_session_cursors, by row id
    cursor_ret,      \* the last CursorManager call and what it returned
    \* ---- a PlaceIDDeduplicationService fed through its API
    dedup_service,   \* its seen sets and its counters
    dedup_run,       \* the records fed since the last reset, and those accepted
    \* ---- one call of _extract_details_parallel
    extraction,      \* its semaphore, its tasks and the contexts they opened
    \* ---- a HistoryService called through its API
    history_ret,     \* the last record_scraped_places call and what it returned
    \* ---- the sizes scrape() settles before it collects
    sizing,          \* the arguments of the call, its max_scrolls and collection_target
    \* ---- QueryNormalizer.normalize called on its own
    normalized,      \* the query of the last call and the string returned
    \* ---- the closes of the pool's pages and contexts
    close_faults,    \* whether a close may raise, and whose last release met one
    \* ---- the calls of reset_session
    resets,          \* the users whose reset_session closed a session of theirs
    \* ---- threads calling the progress tracker
    threads,         \* each thread's operation, its position in it and its locals
    \* ---- a GoogleMapsScraper whose scrape() reports progress
    scraper          \* its fields and the locals of its running scrape()

poolVars == <<sessions, playwright, browser, shutdown_flag, lock, waiters,
              cleanup_task, contexts_open, pages_open, now, pc, result, life,
              issued>>

pipeVars == <<scraper>>
taskVars == <<task_pc, persisted, task_exc, task_results, op_failed,
              scraper_browser, db_up, task_args, task_origin>>
storeVars == <<user_places, cursors, cursor_ret>>
callVars == <<dedup_service, dedup_run, extraction, history_ret, sizing,
              normalized>>
unitVars == <<callVars, close_faults, threads, resets>>

nonPoolVars == <<active_scrapes, taskVars, pipeVars, storeVars, unitVars>>
\* what release_session leaves alone outside the pool
releaseVars == <<active_scrapes, taskVars, pipeVars, storeVars, callVars, threads>>

vars == <<poolVars, active_scrapes, taskVars, pipeVars, storeVars, unitVars>>

\* ------------------------------------------------------------ pool helpers
EmptySessions == [u \in {} |-> 0]

Remove(f, S) == [u \in (DOMAIN f) \ S |-> f[u]]

Put(f, u, v) == [w \in (DOMAIN f) \cup {u} |-> IF w = u THEN v ELSE f[w]]

Without(q, p) == SelectSeq(q, LAMBDA x : x # p)

\* UserSession; scrape_count is left out: the pool only ever increments it
\* and reports it in get_session_info, no branch reads it
UserSession(context, page, t) ==
    [context |-> context, page |-> page, last_activity |-> t, created_at |-> t]

update_activity(s, t) == [s EXCEPT !.last_activity = t]

\* the limit test written with > instead of >=
AtLimitOffByOne(s) == Cardinality(DOMAIN s) > max_sessions

AtLimit(s) == Cardinality(DOMAIN s) >= max_sessions

\* the expiry test with its comparisons inverted
ExpiredInverted(s, t) ==
    \/ t - s.last_activity < idle_timeout_minutes
    \/ t - s.created_at < session_max_age_minutes

Expired(s, t) ==
    \/ t - s.last_activity > idle_timeout_minutes
    \/ t - s.created_at > session_max_age_minutes

ToCleanup(ss, t) == {u \in DOMAIN ss : Expired(ss[u], t)}

\* every user is handed the browser's first context
shared_context(open) == 1

\* browser.new_context(): an object distinct from every open context
new_context(open) ==
    CHOOSE c \in ContextIds : c \notin open /\ \A d \in ContextIds \ open : c <= d

new_page(open) ==
    CHOOSE c \in ContextIds : c \notin open /\ \A d \in ContextIds \ open : c <= d

ContextsOf(ss) == {ss[u].context : u \in DOMAIN ss}
PagesOf(ss) == {ss[u].page : u \in DOMAIN ss}

\* contexts open in the browser that no stored session owns
Leaked(open, ss) == open \ ContextsOf(ss)

\* asyncio.Lock: release wakes the first waiter, nobody barges past the queue
LockFree == lock = {} /\ waiters = <<>>

Released(q) == IF q = <<>> THEN {} ELSE {Head(q)}
RestOf(q) == IF q = <<>> THEN <<>> ELSE Tail(q)

\* initialize() creates the cleanup task; its loop exits at once when
\* _shutdown is already set
CreateCleanupTask(ct) ==
    IF shutdown_flag THEN (IF ct = "none" THEN "done" ELSE ct) ELSE "sleeping"

\* ------------------------------------------------------------------- Init
PoolInit ==
    /\ sessions = EmptySessions
    /\ playwright = FALSE
    /\ browser = FALSE
    /\ shutdown_flag = FALSE
    /\ lock = {}
    /\ waiters = <<>>
    /\ cleanup_task = "none"
    /\ contexts_open = {}
    /\ pages_open = {}
    /\ now = 0
    /\ pc = [u \in Users |-> "idle"]
    /\ result = [u \in Users |-> "none"]
    /\ life = "startup"
    /\ issued = 0

ScrapeIds == Users

\* Optional values: None is the empty set, a value x is {x}
None == {}
Some(x) == {x}

\* nothing has been handed to a task
NoArgs == [query |-> <<>>, seen_places |-> {}, cursor_data |-> None]

\* no scrape has been requested
TaskIdle ==
    /\ task_pc = [id \in ScrapeIds |-> "unused"]
    /\ persisted = [id \in ScrapeIds |-> {}]
    /\ task_exc = [id \in ScrapeIds |-> "none"]
    /\ task_results = [id \in ScrapeIds |-> <<>>]
    /\ op_failed = [id \in ScrapeIds |-> FALSE]
    /\ scraper_browser = [id \in ScrapeIds |-> FALSE]
    /\ db_up = TRUE
    /\ task_args = [id \in ScrapeIds |-> NoArgs]
    /\ task_origin = [id \in ScrapeIds |-> None]

\* the user_places table is empty
NoPlaces == {}

\* the scrape_session_cursors table is empty
NoCursors == {}

\* no CursorManager call has been made
NoCall == [op |-> "none", value |-> None]

\* nothing is stored and nothing was called
StoreIdle ==
    /\ user_places = NoPlaces
    /\ cursors = NoCursors
    /\ cursor_ret = NoCall

\* PlaceIDDeduplicationService.__init__ and reset(): empty sets, zero counters
DedupFresh ==
    [seen_place_ids |-> {}, seen_cids |-> {}, seen_hrefs |-> {},
     seen_names_addresses |-> {},
     dedup_stats |-> [total_checked |-> 0, duplicates_removed |-> 0,
                      unique_kept |-> 0, by_place_id |-> 0, by_cid |-> 0,
                      by_href |-> 0, by_name_address |-> 0]]

\* nothing was fed to the service
NoRun == [fed |-> <<>>, accepted |-> <<>>]

\* _extract_details_parallel has not been called
NoExtraction ==
    [max_concurrent |-> 0, value |-> 0, waiters |-> <<>>, task_pc |-> <<>>,
     returned |-> <<>>, contexts |-> {}, orphans |-> 0, extracted_count |-> 0,
     extraction_errors |-> 0, finish_order |-> <<>>, gathered |-> FALSE,
     results |-> <<>>]

\* record_scraped_places has not been called
NoRecording == [user_id |-> 0, place_ids |-> <<>>, before |-> {}, at |-> 0,
                raised |-> FALSE, value |-> None]

\* scrape() has not been called
NoSizing == [target_count |-> 0, seen_places |-> {}, max_scrolls |-> {},
             scroll_bound |-> 0, collection_target |-> 0]

\* normalize has not been called
NotNormalized == [query |-> <<>>, value |-> None]

\* page.close() and context.close() never raise / may raise
NoFaults == [enabled |-> FALSE, raised |-> {}]
FaultyCloses == [enabled |-> TRUE, raised |-> {}]

\* the components driven on their own are as constructed
CallsIdle ==
    /\ dedup_service = DedupFresh
    /\ dedup_run = NoRun
    /\ history_ret = NoRecording
    /\ sizing = NoSizing
    /\ normalized = NotNormalized
    /\ extraction = NoExtraction

\* no thread is in a tracker operation
ThreadIds == {1, 2}
Resting == [pc |-> "idle", op |-> "none", id |-> 0, detached |-> FALSE, stale_ids |-> {}]
ThreadsIdle == [t \in ThreadIds |-> Resting]

UnitIdle ==
    CallsIdle /\ close_faults = NoFaults /\ threads = ThreadsIdle /\ resets = {}

\* ScrapeProgressTracker.__init__
TrackerIdle == active_scrapes = EmptySessions

\* ========================================================= progress tracker

\* GoogleMapsScraper.__init__: no scrape is running and no progress id is set
ScraperIdle ==
    scraper = [pc |-> "idle", progress_scrape_id |-> 0, target_count |-> 0,
               max_scrolls |-> None, seen_places |-> {}, scroll_num |-> 0,
               visible |-> 0, consecutive_seen_duplicates |-> 0,
               card_links |-> <<>>, stale_count |-> 0, total_tasks |-> 0,
               extracted_count |-> 0, finished |-> 0, extracted |-> <<>>,
               results |-> <<>>, scrolls_performed |-> 0,
               skipped_duplicates |-> 0, seen_met |-> {}, last_productive |-> 0,
               stopped |-> "no"]

\* ------------------------------------------------------- lifespan startup
\* main.py lifespan: await browser_pool.initialize(), failures are logged
LifespanStartup ==
    /\ life = "startup"
    /\ \E outcome \in {"ok", "start_error", "launch_error"} :
        /\ playwright' = (outcome # "start_error")
        /\ browser' = (outcome = "ok")
        /\ cleanup_task' = IF outcome = "ok" THEN "sleeping" ELSE "none"
    /\ life' = "serving"
    /\ UNCHANGED <<nonPoolVars, sessions, shutdown_flag, lock, waiters, contexts_open,
                   pages_open, now, pc, result, issued>>

Tick ==
    /\ now + TickMinutes <= MaxNow
    /\ now' = now + TickMinutes
    /\ UNCHANGED <<nonPoolVars, sessions, playwright, browser, shutdown_flag, lock, waiters,
                   cleanup_task, contexts_open, pages_open, pc, result, life, issued>>

\* ------------------------------------------------------------ get_session
AfterLockGet == IF browser THEN "get_admit" ELSE "get_init"

Accepting == life \in {"serving", "shutdown_wait", "shutdown_locked", "shutdown_await"}

\* a route calls get_session / release_session / reset_session for its user
Call(u, o) ==
    /\ Accepting
    /\ pc[u] = "idle"
    /\ issued < MaxRequests
    /\ issued' = issued + 1
    /\ result' = [result EXCEPT ![u] = "none"]
    /\ resets' = resets \ {u}
    /\ IF LockFree
         THEN /\ lock' = {u}
              /\ waiters' = waiters
              /\ pc' = [pc EXCEPT ![u] = IF o = "get" THEN AfterLockGet ELSE o \o "_locked"]
         ELSE /\ lock' = lock
              /\ waiters' = Append(waiters, u)
              /\ pc' = [pc EXCEPT ![u] = o \o "_wait"]
    /\ UNCHANGED <<releaseVars, close_faults, sessions, playwright, browser,
                   shutdown_flag, cleanup_task, contexts_open, pages_open, now, life>>

\* the waiter is woken with the lock
GetWake(u) ==
    /\ pc[u] = "get_wait"
    /\ lock = {u}
    /\ pc' = [pc EXCEPT ![u] = AfterLockGet]
    /\ UNCHANGED <<nonPoolVars, sessions, playwright, browser, shutdown_flag, lock, waiters,
                   cleanup_task, contexts_open, pages_open, now, result, life, issued>>

\* lines 156-157 with initialize(): nothing happens when playwright is set
GetInit(u) ==
    /\ pc[u] = "get_init"
    /\ lock = {u}
    /\ IF playwright
         THEN \* initialize() returns at once; self.browser stays None and
              \* self.browser.new_context raises AttributeError
              /\ pc' = [pc EXCEPT ![u] = "idle"]
              /\ result' = [result EXCEPT ![u] = "error"]
              /\ lock' = Released(waiters)
              /\ waiters' = RestOf(waiters)
              /\ UNCHANGED <<nonPoolVars, playwright, browser, cleanup_task, issued>>
         ELSE \E outcome \in {"ok", "start_error", "launch_error"} :
              /\ playwright' = (outcome # "start_error")
              /\ browser' = (outcome = "ok")
              /\ cleanup_task' = IF outcome = "ok" THEN CreateCleanupTask(cleanup_task)
                                                   ELSE cleanup_task
              /\ IF outcome = "ok"
                   THEN /\ pc' = [pc EXCEPT ![u] = "get_admit"]
                        /\ UNCHANGED <<nonPoolVars, result, lock, waiters, issued>>
                   ELSE /\ pc' = [pc EXCEPT ![u] = "idle"]
                        /\ result' = [result EXCEPT ![u] = "error"]
                        /\ lock' = Released(waiters)
                        /\ waiters' = RestOf(waiters)
    /\ UNCHANGED <<nonPoolVars, sessions, shutdown_flag, contexts_open, pages_open, now, life, issued>>

\* _cleanup_idle_sessions_sync with _close_session for each expired session
CleanedSessions(ss, t) == Remove(ss, ToCleanup(ss, t))

\* lines 159-176: reuse, or admission with eager cleanup
GetAdmit(u) ==
    /\ pc[u] = "get_admit"
    /\ lock = {u}
    /\ IF u \in DOMAIN sessions
         THEN /\ sessions' = [sessions EXCEPT ![u] = update_activity(@, now)]
              /\ pc' = [pc EXCEPT ![u] = "idle"]
              /\ result' = [result EXCEPT ![u] = "ok"]
              /\ lock' = Released(waiters)
              /\ waiters' = RestOf(waiters)
              /\ UNCHANGED <<nonPoolVars, contexts_open, pages_open, issued>>
         ELSE LET after == IF AtLimit(sessions) THEN CleanedSessions(sessions, now)
                                                ELSE sessions
              IN  /\ sessions' = after
                  /\ contexts_open' = contexts_open \ (ContextsOf(sessions) \ ContextsOf(after))
                  /\ pages_open' = pages_open \ (PagesOf(sessions) \ PagesOf(after))
                  /\ IF AtLimit(sessions) /\ AtLimit(after)
                       THEN /\ pc' = [pc EXCEPT ![u] = "idle"]
                            /\ result' = [result EXCEPT ![u] = "RuntimeError"]
                            /\ lock' = Released(waiters)
                            /\ waiters' = RestOf(waiters)
                       ELSE /\ pc' = [pc EXCEPT ![u] = "get_create"]
                            /\ UNCHANGED <<nonPoolVars, result, lock, waiters, issued>>
    /\ UNCHANGED <<nonPoolVars, playwright, browser, shutdown_flag, cleanup_task, now, life, issued>>

\* lines 178-211: new_context, add_init_script, new_page, store
GetCreate(u) ==
    /\ pc[u] = "get_create"
    /\ lock = {u}
    /\ \E outcome \in {"ok", "context_error", "script_error", "page_error"} :
        /\ outcome \in {"script_error", "page_error"} =>
               Cardinality(Leaked(contexts_open, sessions)) < MaxLeaked
        /\ IF outcome = "ok"
             THEN LET c == new_context(contexts_open)
                      p == new_page(pages_open)
                  IN  /\ contexts_open' = contexts_open \cup {c}
                      /\ pages_open' = pages_open \cup {p}
                      /\ sessions' = Put(sessions, u, UserSession(c, p, now))
                      /\ result' = [result EXCEPT ![u] = "ok"]
             ELSE /\ contexts_open' = IF outcome = "context_error" THEN contexts_open
                                      ELSE contexts_open \cup {new_context(contexts_open)}
                  /\ result' = [result EXCEPT ![u] = "error"]
                  /\ UNCHANGED <<nonPoolVars, sessions, pages_open, issued>>
    /\ pc' = [pc EXCEPT ![u] = "idle"]
    /\ lock' = Released(waiters)
    /\ waiters' = RestOf(waiters)
    /\ UNCHANGED <<nonPoolVars, playwright, browser, shutdown_flag, cleanup_task, now, life, issued>>

\* --------------------------------------------------------- release_session
ReleaseWake(u) ==
    /\ pc[u] \in {"release_wait", "reset_wait"}
    /\ lock = {u}
    /\ pc' = [pc EXCEPT ![u] = IF pc[u] = "reset_wait" THEN "reset_locked"
                                                       ELSE "release_locked"]
    /\ UNCHANGED <<nonPoolVars, sessions, playwright, browser, shutdown_flag, lock, waiters,
                   cleanup_task, contexts_open, pages_open, now, result, life, issued>>

\* _close_session with the entry left in the map
close_sessionKeepsEntry(ss, u) == ss

\* _close_session: page and context closed, the entry deleted
close_session(ss, u) == Remove(ss, {u})

\* the outcomes of page.close() and context.close(): each returns or raises
ClosesRaise(faults) == IF faults.enabled THEN BOOLEAN ELSE {FALSE}

\* lines 220-225; reset_session goes on to get_session (lines 364-365).  A
\* close that raises is one on a page or a context that has gone already:
\* _close_session logs the exception and goes on (lines 229-237)
ReleaseLocked(u) ==
    /\ pc[u] \in {"release_locked", "reset_locked"}
    /\ lock = {u}
    /\ LET after == close_session(sessions, u)
       IN  /\ sessions' = after
           /\ contexts_open' = contexts_open \ (ContextsOf(sessions) \ ContextsOf(after))
           /\ pages_open' = pages_open \ (PagesOf(sessions) \ PagesOf(after))
    /\ \E page_raised \in ClosesRaise(close_faults),
          context_raised \in ClosesRaise(close_faults) :
         /\ page_raised \/ context_raised => u \in DOMAIN sessions
         /\ close_faults' =
              [close_faults EXCEPT
                 !.raised = IF page_raised \/ context_raised THEN @ \cup {u}
                            ELSE @ \ {u}]
    /\ resets' = IF pc[u] = "reset_locked" /\ u \in DOMAIN sessions
                    THEN resets \cup {u} ELSE resets \ {u}
    /\ IF pc[u] = "reset_locked"
         THEN IF waiters = <<>>
                THEN \* get_session takes the free lock without yielding
                     /\ pc' = [pc EXCEPT ![u] = AfterLockGet]
                     /\ UNCHANGED <<releaseVars, lock, waiters, issued>>
                ELSE /\ lock' = {Head(waiters)}
                     /\ waiters' = Append(Tail(waiters), u)
                     /\ pc' = [pc EXCEPT ![u] = "get_wait"]
         ELSE /\ pc' = [pc EXCEPT ![u] = "idle"]
              /\ lock' = Released(waiters)
              /\ waiters' = RestOf(waiters)
    /\ UNCHANGED <<releaseVars, playwright, browser, shutdown_flag, cleanup_task, now,
                   result, life, issued>>

\* ------------------------------------------------------------ _cleanup_loop
\* asyncio.sleep(60) is over: leave when _shutdown, else take the lock
CleanupWake ==
    /\ cleanup_task = "sleeping"
    /\ IF shutdown_flag
         THEN /\ cleanup_task' = "done"
              /\ UNCHANGED <<nonPoolVars, lock, waiters, issued>>
         ELSE IF LockFree
                THEN /\ cleanup_task' = "locked"
                     /\ lock' = {CleanupProc}
                     /\ waiters' = waiters
                ELSE /\ cleanup_task' = "waiting"
                     /\ lock' = lock
                     /\ waiters' = Append(waiters, CleanupProc)
    /\ UNCHANGED <<nonPoolVars, sessions, playwright, browser, shutdown_flag, contexts_open,
                   pages_open, now, pc, result, life, issued>>

CleanupGotLock ==
    /\ cleanup_task = "waiting"
    /\ lock = {CleanupProc}
    /\ cleanup_task' = "locked"
    /\ UNCHANGED <<nonPoolVars, sessions, playwright, browser, shutdown_flag, lock, waiters,
                   contexts_open, pages_open, now, pc, result, life, issued>>

\* lines 276-279, then the loop test of line 269
CleanupRun ==
    /\ cleanup_task = "locked"
    /\ lock = {CleanupProc}
    /\ LET after == CleanedSessions(sessions, now)
       IN  /\ sessions' = after
           /\ contexts_open' = contexts_open \ (ContextsOf(sessions) \ ContextsOf(after))
           /\ pages_open' = pages_open \ (PagesOf(sessions) \ PagesOf(after))
    /\ lock' = Released(waiters)
    /\ waiters' = RestOf(waiters)
    /\ cleanup_task' = IF shutdown_flag THEN "done" ELSE "sleeping"
    /\ UNCHANGED <<nonPoolVars, playwright, browser, shutdown_flag, now, pc, result, life, issued>>

\* CancelledError reaches the loop at its await and breaks it
CleanupCancelled ==
    /\ cleanup_task = "cancelling"
    /\ cleanup_task' = "done"
    /\ UNCHANGED <<nonPoolVars, sessions, playwright, browser, shutdown_flag, lock, waiters,
                   contexts_open, pages_open, now, pc, result, life, issued>>

\* ----------------------------------------------------------------- shutdown
\* lines 288-291: _shutdown is set before the lock is taken
ShutdownCall ==
    /\ life = "serving"
    /\ shutdown_flag' = TRUE
    /\ IF LockFree
         THEN /\ lock' = {ShutdownProc}
              /\ waiters' = waiters
              /\ life' = "shutdown_locked"
         ELSE /\ lock' = lock
              /\ waiters' = Append(waiters, ShutdownProc)
              /\ life' = "shutdown_wait"
    /\ UNCHANGED <<nonPoolVars, sessions, playwright, browser, cleanup_task, contexts_open,
                   pages_open, now, pc, result, issued>>

ShutdownWake ==
    /\ life = "shutdown_wait"
    /\ lock = {ShutdownProc}
    /\ life' = "shutdown_locked"
    /\ UNCHANGED <<nonPoolVars, sessions, playwright, browser, shutdown_flag, lock, waiters,
                   cleanup_task, contexts_open, pages_open, now, pc, result, issued>>

\* lines 292-318: close every session, the browser and playwright, leave the
\* lock, cancel the cleanup task and await it.  An absent or finished task is
\* not waited for and shutdown returns in the same step.
ShutdownLocked ==
    /\ life = "shutdown_locked"
    /\ lock = {ShutdownProc}
    /\ sessions' = EmptySessions
    /\ contexts_open' = {}
    /\ pages_open' = {}
    /\ browser' = FALSE
    /\ playwright' = FALSE
    /\ LET q == Without(waiters, CleanupProc)
       IN  /\ lock' = Released(q)
           /\ waiters' = RestOf(q)
    /\ cleanup_task' = IF cleanup_task \in {"none", "done"} THEN cleanup_task
                                                           ELSE "cancelling"
    /\ life' = IF cleanup_task \in {"none", "done"} THEN "done" ELSE "shutdown_await"
    /\ UNCHANGED <<nonPoolVars, shutdown_flag, now, pc, result, issued>>

\* await self.cleanup_task is over: shutdown returns
ShutdownReturn ==
    /\ life = "shutdown_await"
    /\ cleanup_task = "done"
    /\ life' = "done"
    /\ UNCHANGED <<nonPoolVars, sessions, playwright, browser, shutdown_flag, lock, waiters,
                   cleanup_task, contexts_open, pages_open, now, pc, result, issued>>

\* ------------------------------------------------------------ specification
PoolNext ==
    \/ LifespanStartup
    \/ Tick
    \/ \E u \in Users, o \in {"get", "release", "reset"} : Call(u, o)
    \/ \E u \in Users : GetWake(u)
    \/ \E u \in Users : GetInit(u)
    \/ \E u \in Users : GetAdmit(u)
    \/ \E u \in Users : GetCreate(u)
    \/ \E u \in Users : ReleaseWake(u)
    \/ \E u \in Users : ReleaseLocked(u)
    \/ CleanupWake
    \/ CleanupGotLock
    \/ CleanupRun
    \/ CleanupCancelled
    \/ ShutdownCall
    \/ ShutdownWake
    \/ ShutdownLocked
    \/ ShutdownReturn

\* the pool alone: no scrape is requested
PoolAloneInit ==
    PoolInit /\ TaskIdle /\ TrackerIdle /\ ScraperIdle /\ StoreIdle /\ UnitIdle

SpecPool == PoolAloneInit /\ [][PoolNext]_vars

\* the pool used by two users in a browser whose closes may raise; the
\* application is not shut down
ReleaseUsers == {1, 2}

ReleaseInit ==
    /\ PoolInit /\ TaskIdle /\ TrackerIdle /\ ScraperIdle /\ StoreIdle /\ CallsIdle
    /\ close_faults = FaultyCloses
    /\ threads = ThreadsIdle
    /\ resets = {}

ReleaseNext ==
    \/ LifespanStartup
    \/ Tick
    \/ \E u \in ReleaseUsers, o \in {"get", "release", "reset"} : Call(u, o)
    \/ \E u \in ReleaseUsers : GetWake(u)
    \/ \E u \in ReleaseUsers : GetInit(u)
    \/ \E u \in ReleaseUsers : GetAdmit(u)
    \/ \E u \in ReleaseUsers : GetCreate(u)
    \/ \E u \in ReleaseUsers : ReleaseWake(u)
    \/ \E u \in ReleaseUsers : ReleaseLocked(u)
    \/ CleanupWake
    \/ CleanupGotLock
    \/ CleanupRun

SpecRelease == ReleaseInit /\ [][ReleaseNext]_vars

\* a serving pool that is full: each of the first max_sessions users was
\* given a session by get_session, and one more user has none
FullPool == [u \in 1..max_sessions |-> UserSession(u, u, 0)]

ResetInit ==
    /\ sessions = FullPool
    /\ playwright = TRUE
    /\ browser = TRUE
    /\ shutdown_flag = FALSE
    /\ lock = {}
    /\ waiters = <<>>
    /\ cleanup_task = "sleeping"
    /\ contexts_open = ContextsOf(FullPool)
    /\ pages_open = PagesOf(FullPool)
    /\ now = 0
    /\ pc = [u \in Users |-> "idle"]
    /\ result = [u \in Users |-> IF u \in DOMAIN FullPool THEN "ok" ELSE "none"]
    /\ life = "serving"
    /\ issued = 0
    /\ TaskIdle /\ TrackerIdle /\ ScraperIdle /\ StoreIdle /\ UnitIdle

ResetNext ==
    \/ Tick
    \/ \E u \in Users, o \in {"get", "release", "reset"} : Call(u, o)
    \/ \E u \in Users : GetWake(u)
    \/ \E u \in Users : GetAdmit(u)
    \/ \E u \in Users : GetCreate(u)
    \/ \E u \in Users : ReleaseWake(u)
    \/ \E u \in Users : ReleaseLocked(u)
    \/ CleanupWake
    \/ CleanupGotLock
    \/ CleanupRun

SpecReset == ResetInit /\ [][ResetNext]_vars



Min(a, b) == IF a < b THEN a ELSE b

Statuses == {"starting", "scrolling", "extracting", "completed", "failed"}
Terminal == {"completed", "failed"}

\* ProgressData as create_scrape builds it (display strings, start_time and
\* the result preview are left out); last_update is time.time(), in minutes
ProgressData(target_count, max_scrolls_arg) ==
    [status |-> "starting", progress_percent |-> 0,
     cards_found |-> 0, cards_extracted |-> 0, unique_results |-> 0,
     scrolls_done |-> 0, max_scrolls |-> max_scrolls_arg,
     target_count |-> target_count,
     final_results |-> None, error_message |-> None, last_update |-> now]

create_scrape(a, id, target_count, max_scrolls_arg) ==
    Put(a, id, ProgressData(target_count, max_scrolls_arg))

\* update(scrape_id, **kwargs): kw maps the keywords given to their values
Given(kw, k, old) == IF k \in DOMAIN kw THEN kw[k] ELSE old

update(a, id, kw) ==
    IF id \notin DOMAIN a THEN a
    ELSE [a EXCEPT ![id] =
            [@ EXCEPT
               !.progress_percent = IF "progress_percent" \in DOMAIN kw
                                      THEN Min(kw.progress_percent, 100) ELSE @,
               !.status = Given(kw, "status", @),
               !.cards_found = Given(kw, "cards_found", @),
               !.cards_extracted = Given(kw, "cards_extracted", @),
               !.unique_results = Given(kw, "unique_results", @),
               !.scrolls_done = Given(kw, "scrolls_done", @),
               !.error_message = IF "error_message" \in DOMAIN kw
                                   THEN Some(kw.error_message) ELSE @,
               !.last_update = now]]

complete_scrape(a, id, results, success) ==
    IF id \notin DOMAIN a THEN a
    ELSE [a EXCEPT ![id] =
            [@ EXCEPT
               !.status = IF success THEN "completed" ELSE "failed",
               !.progress_percent = IF success THEN 100 ELSE @,
               !.final_results = Some(results),
               !.unique_results = Len(results),
               !.last_update = now]]

fail_scrape(a, id, error) ==
    IF id \notin DOMAIN a THEN a
    ELSE [a EXCEPT ![id] =
            [@ EXCEPT !.status = "failed", !.error_message = Some(error),
                      !.last_update = now]]

\* cleanup_stale(max_age_seconds = 3600): the entries not updated for longer
\* than max_age_seconds are deleted
max_age_seconds == 3600
Stale(a, id) == (now - a[id].last_update) * 60 > max_age_seconds
cleanup_stale(a) == Remove(a, {id \in DOMAIN a : Stale(a, id)})

\* ------------------------------------------- tracker driven through its API
TrackerIds == 1..MaxTrackerIds
TrackerPercents == {10, 60, 120}
TrackerResults == {<<>>, <<"r1">>}

\* the keywords of one update call: a status, a percent, both or neither
NoKwargs == [k \in {} |-> 0]
Kwargs(st, pct) ==
    (IF st = "-" THEN NoKwargs ELSE ("status" :> st))
    @@ (IF pct < 0 THEN NoKwargs ELSE ("progress_percent" :> pct))

TrackerCreate(id) ==
    /\ active_scrapes' = create_scrape(active_scrapes, id, 1, Some(1))
    /\ UNCHANGED <<poolVars, taskVars, pipeVars, storeVars, unitVars>>

TrackerUpdate(id) ==
    /\ \E st \in Statuses \cup {"-"}, pct \in TrackerPercents \cup {-1} :
          active_scrapes' = update(active_scrapes, id, Kwargs(st, pct))
    /\ UNCHANGED <<poolVars, taskVars, pipeVars, storeVars, unitVars>>

TrackerComplete(id) ==
    /\ \E r \in TrackerResults, success \in BOOLEAN :
          active_scrapes' = complete_scrape(active_scrapes, id, r, success)
    /\ UNCHANGED <<poolVars, taskVars, pipeVars, storeVars, unitVars>>

TrackerFail(id) ==
    /\ active_scrapes' = fail_scrape(active_scrapes, id, "boom")
    /\ UNCHANGED <<poolVars, taskVars, pipeVars, storeVars, unitVars>>

TrackerInit ==
    PoolInit /\ TaskIdle /\ TrackerIdle /\ ScraperIdle /\ StoreIdle /\ UnitIdle

TrackerNext ==
    \E id \in TrackerIds :
        TrackerCreate(id) \/ TrackerUpdate(id) \/ TrackerComplete(id) \/ TrackerFail(id)

SpecTracker == TrackerInit /\ [][TrackerNext]_vars

\* ------------------------------------------------ the tracker under threads
\* Two threads call the tracker's methods on one scrape id.  No method takes
\* ScrapeProgressTracker._lock (it guards __new__ only), so a thread's reads
\* and writes of active_scrapes are separate steps other threads run between
ThreadScrapeIds == {1}
ThreadOps == {"create", "update", "fail", "snapshot", "cleanup"}

\* the thread has read the map and has not returned yet
Inside(t) == threads[t].pc \in {"holding", "deleting"}

\* a thread calls a method
ThreadCalled(t, op, id) ==
    /\ threads[t].pc = "idle"
    /\ threads' = [threads EXCEPT ![t] = [Resting EXCEPT !.pc = "called", !.op = op,
                                                          !.id = id]]
    /\ UNCHANGED <<poolVars, active_scrapes, taskVars, pipeVars, storeVars, callVars,
                   close_faults, resets>>

\* create_scrape: self.active_scrapes[scrape_id] = progress, a new object;
\* a thread holding the entry's earlier object holds one the map has not
ThreadCreates(t) ==
    /\ threads[t].pc = "called" /\ threads[t].op = "create"
    /\ active_scrapes' = create_scrape(active_scrapes, threads[t].id, 1, Some(1))
    /\ threads' = [o \in ThreadIds |->
                    IF o = t THEN Resting
                    ELSE IF threads[o].pc = "holding" /\ threads[o].id = threads[t].id
                      THEN [threads[o] EXCEPT !.detached = TRUE]
                    ELSE threads[o]]
    /\ UNCHANGED <<poolVars, taskVars, pipeVars, storeVars, callVars, close_faults, resets>>

\* progress = self.active_scrapes.get(scrape_id) of update and fail_scrape,
\* and get_progress with to_dict of a snapshot
ThreadGets(t) ==
    /\ threads[t].pc = "called" /\ threads[t].op \in {"update", "fail", "snapshot"}
    /\ threads' = [threads EXCEPT ![t] =
                     IF threads[t].id \in DOMAIN active_scrapes /\ threads[t].op # "snapshot"
                       THEN [@ EXCEPT !.pc = "holding"]
                       ELSE Resting]
    /\ UNCHANGED <<poolVars, active_scrapes, taskVars, pipeVars, storeVars, callVars,
                   close_faults, resets>>

\* the assignments to the fields of progress; they reach the map when the
\* map still holds the object the thread read
ThreadWrites(t) ==
    /\ threads[t].pc = "holding"
    /\ active_scrapes' =
         IF threads[t].detached THEN active_scrapes
         ELSE IF threads[t].op = "update"
           THEN update(active_scrapes, threads[t].id, Kwargs("scrolling", 50))
         ELSE fail_scrape(active_scrapes, threads[t].id, "error")
    /\ threads' = [threads EXCEPT ![t] = Resting]
    /\ UNCHANGED <<poolVars, taskVars, pipeVars, storeVars, callVars, close_faults, resets>>

\* cleanup_stale: the list comprehension over active_scrapes.items()
ThreadListsStale(t) ==
    /\ threads[t].pc = "called" /\ threads[t].op = "cleanup"
    /\ threads' = [threads EXCEPT ![t] =
                     [@ EXCEPT !.pc = "deleting",
                               !.stale_ids = {id \in DOMAIN active_scrapes :
                                                Stale(active_scrapes, id)}]]
    /\ UNCHANGED <<poolVars, active_scrapes, taskVars, pipeVars, storeVars, callVars,
                   close_faults, resets>>

\* cleanup_stale: del self.active_scrapes[sid] for the ids listed (a KeyError
\* when another thread deleted the entry first)
ThreadDeletes(t) ==
    /\ threads[t].pc = "deleting"
    /\ active_scrapes' = Remove(active_scrapes, threads[t].stale_ids)
    /\ threads' = [o \in ThreadIds |->
                    IF o = t THEN Resting
                    ELSE IF threads[o].pc = "holding" /\ threads[o].id \in threads[t].stale_ids
                      THEN [threads[o] EXCEPT !.detached = TRUE]
                    ELSE threads[o]]
    /\ UNCHANGED <<poolVars, taskVars, pipeVars, storeVars, callVars, close_faults, resets>>

ThreadsInit ==
    PoolInit /\ TaskIdle /\ TrackerIdle /\ ScraperIdle /\ StoreIdle /\ UnitIdle

ThreadsNext ==
    \/ \E t \in ThreadIds, op \in ThreadOps, id \in ThreadScrapeIds : ThreadCalled(t, op, id)
    \/ \E t \in ThreadIds : ThreadCreates(t)
    \/ \E t \in ThreadIds : ThreadGets(t)
    \/ \E t \in ThreadIds : ThreadWrites(t)
    \/ \E t \in ThreadIds : ThreadListsStale(t)
    \/ \E t \in ThreadIds : ThreadDeletes(t)
    \/ Tick

SpecThreads == ThreadsInit /\ [][ThreadsNext]_vars


\* ========================================================= query normalizer
\* A query is a string, modelled as its sequence of characters: 0 is the
\* space, 1..26 the letters a..z, 101..126 the letters A..Z and 99 a comma.
Space == 0
Comma == 99

\* 'in', 'near', 'around', 'at', 'of', 'for'
LOCATION_WORDS ==
    {<<9, 14>>, <<14, 5, 1, 18>>, <<1, 18, 15, 21, 14, 4>>, <<1, 20>>, <<15, 6>>,
     <<6, 15, 18>>}

\* 'the', 'a', 'an', 'and', 'or'
STOP_WORDS == {<<20, 8, 5>>, <<1>>, <<1, 14>>, <<1, 14, 4>>, <<15, 18>>}

\* str.lower on one character
Lower(c) == IF c > 100 THEN c - 100 ELSE c

\* re.sub(r'[^\w\s\-&]', ' ', q) on one character
Unpunctuated(c) == IF c = Comma THEN Space ELSE c

\* str.split(): the maximal runs of non-space characters of s from position
\* i on, cur being the run read so far
RECURSIVE SplitFrom(_, _, _)
SplitFrom(s, i, cur) ==
    IF i > Len(s)
      THEN IF cur = <<>> THEN <<>> ELSE <<cur>>
      ELSE IF s[i] = Space
             THEN (IF cur = <<>> THEN <<>> ELSE <<cur>>) \o SplitFrom(s, i + 1, <<>>)
             ELSE SplitFrom(s, i + 1, Append(cur, s[i]))

\* string comparison a < b, by code point
RECURSIVE StrLess(_, _)
StrLess(a, b) ==
    IF b = <<>> THEN FALSE
    ELSE IF a = <<>> THEN TRUE
    ELSE IF Head(a) # Head(b) THEN Head(a) < Head(b)
    ELSE StrLess(Tail(a), Tail(b))

\* list.sort() on a list of strings
RECURSIVE Insert(_, _)
Insert(t, sorted) ==
    IF sorted = <<>> THEN <<t>>
    ELSE IF StrLess(t, Head(sorted)) THEN <<t>> \o sorted
    ELSE <<Head(sorted)>> \o Insert(t, Tail(sorted))

RECURSIVE Sorted(_)
Sorted(ts) == IF ts = <<>> THEN <<>> ELSE Insert(Head(ts), Sorted(Tail(ts)))

\* ' '.join(tokens)
RECURSIVE Join(_)
Join(ts) ==
    IF ts = <<>> THEN <<>>
    ELSE IF Len(ts) = 1 THEN Head(ts)
    ELSE Head(ts) \o <<Space>> \o Join(Tail(ts))

\* normalize with the tokens left in the order of the query
normalizeUnsorted(query) ==
    LET q == [i \in 1..Len(query) |-> Unpunctuated(Lower(query[i]))]
        tokens == SelectSeq(SplitFrom(q, 1, <<>>), LAMBDA t : t \notin STOP_WORDS)
        service_tokens == SelectSeq(tokens, LAMBDA t : t \notin LOCATION_WORDS)
        location_tokens == SelectSeq(tokens, LAMBDA t : t \in LOCATION_WORDS)
    IN  Join(service_tokens \o location_tokens)

\* QueryNormalizer.normalize
normalize(query) ==
    LET q == [i \in 1..Len(query) |-> Unpunctuated(Lower(query[i]))]
        tokens == SelectSeq(SplitFrom(q, 1, <<>>), LAMBDA t : t \notin STOP_WORDS)
        service_tokens == SelectSeq(tokens, LAMBDA t : t \notin LOCATION_WORDS)
        location_tokens == SelectSeq(tokens, LAMBDA t : t \in LOCATION_WORDS)
    IN  Join(Sorted(service_tokens) \o Sorted(location_tokens))

\* QueryNormalizer.get_hash: the MD5 digest of the normalized query, a
\* one-to-one tag of it on the queries considered
get_hash(query) == <<"md5", normalize(query)>>

\* difflib.SequenceMatcher.find_longest_match: the longest block common to
\* a[alo..ahi] and b[blo..bhi], the earliest in a and then in b among the
\* longest, as <<i, j, size>>
MatchLen(a, i, ahi, b, j, bhi) ==
    LET RECURSIVE run(_)
        run(k) == IF i + k <= ahi /\ j + k <= bhi /\ a[i + k] = b[j + k]
                    THEN run(k + 1) ELSE k
    IN  run(0)

find_longest_match(a, alo, ahi, b, blo, bhi) ==
    LET size(i, j) == MatchLen(a, i, ahi, b, j, bhi)
        cands == {<<i, j>> : i \in alo..ahi, j \in blo..bhi}
        best == CHOOSE c \in cands :
                  \A d \in cands :
                     \/ size(c[1], c[2]) > size(d[1], d[2])
                     \/ /\ size(c[1], c[2]) = size(d[1], d[2])
                        /\ (c[1] < d[1] \/ (c[1] = d[1] /\ c[2] <= d[2]))
    IN  IF cands = {} THEN <<alo, blo, 0>> ELSE <<best[1], best[2], size(best[1], best[2])>>

\* the number of matched characters: sum of the sizes of get_matching_blocks
RECURSIVE Matches(_, _, _, _, _, _)
Matches(a, alo, ahi, b, blo, bhi) ==
    LET m == find_longest_match(a, alo, ahi, b, blo, bhi)
    IN  IF m[3] = 0 THEN 0
        ELSE Matches(a, alo, m[1] - 1, b, blo, m[2] - 1) + m[3]
             + Matches(a, m[1] + m[3], ahi, b, m[2] + m[3], bhi)

\* QueryNormalizer.fuzzy_match with threshold 0.85:
\* SequenceMatcher(None, norm1, norm2).ratio() = 2.0 * matches / length >= 0.85
fuzzy_match(query1, query2) ==
    LET norm1 == normalize(query1)
        norm2 == normalize(query2)
    IN  /\ query1 # <<>> /\ query2 # <<>>
        /\ norm1 # <<>> /\ norm2 # <<>>
        /\ 200 * Matches(norm1, 1, Len(norm1), norm2, 1, Len(norm2))
             >= 85 * (Len(norm1) + Len(norm2))

\* "x y", "Y, x", "x yz" and "a x at y"
Queries == {<<24, 0, 25>>, <<125, 99, 0, 24>>, <<24, 0, 25, 26>>, <<1, 0, 24, 0, 1, 20, 0, 25>>}

\* normalize, get_hash and fuzzy_match on these queries, evaluated once
NormalFormOf == [q \in Queries |-> normalize(q)]
HashOf == [q \in Queries |-> get_hash(q)]
FuzzyMatchOf == [q1 \in Queries |-> [q2 \in Queries |-> fuzzy_match(q1, q2)]]

\* ================================================ history and cursor stores
\* place ids Google Maps can show
Places == 1..NumPlaces

\* HistoryService.get_user_seen_places(self, user_id): every place id of the
\* user, whatever query recorded it
get_user_seen_places(store, user_id) ==
    {r.place_id : r \in {x \in store : x.user_id = user_id}}

\* the parameters get_user_seen_places accepts, and the arguments scrape-async
\* passes to it
SeenPlacesParams == {"user_id"}
SeenPlacesCallKwargs == {"user_id", "query"}

\* str.strip() of a query
RECURSIVE Strip(_)
Strip(s) ==
    IF s = <<>> THEN s
    ELSE IF Head(s) = Space THEN Strip(Tail(s))
    ELSE IF s[Len(s)] = Space THEN Strip(SubSeq(s, 1, Len(s) - 1))
    ELSE s

\* _make_query_hash: the query lowered, stripped, its spaces replaced by
\* underscores and cut to 50 characters, and the day
Underscore == 98
Clean(s) == [i \in 1..Min(Len(s), 50) |-> IF s[i] = Space THEN Underscore ELSE s[i]]
make_query_hash(query, t) ==
    <<Clean(Strip([i \in DOMAIN query |-> Lower(query[i])])), t \div (24 * 60)>>

\* the rows of the table with the key (user_id, place_id) of uix_user_place
RowsOf(store, user_id, place_id) ==
    {r \in store : r.user_id = user_id /\ r.place_id = place_id}

\* INSERT with no ON CONFLICT clause: a row is added whatever the table holds
InsertAlways(store, user_id, place_id, query_hash, t) ==
    store \cup {[user_id |-> user_id, place_id |-> place_id,
                 query_hash |-> query_hash, first_seen |-> t, last_seen |-> t,
                 scraped_count |-> Cardinality(RowsOf(store, user_id, place_id)) + 1]}

\* insert(UserPlace).values(...).on_conflict_do_update(index_elements=
\* ['user_id', 'place_id'], set_={last_seen, scraped_count + 1}): a new key
\* gets a row with scraped_count 1; a key already in the table keeps its row,
\* its query_hash and its first_seen
Upsert(store, user_id, place_id, query_hash, t) ==
    IF RowsOf(store, user_id, place_id) = {}
      THEN store \cup {[user_id |-> user_id, place_id |-> place_id,
                        query_hash |-> query_hash, first_seen |-> t,
                        last_seen |-> t, scraped_count |-> 1]}
      ELSE {IF r \in RowsOf(store, user_id, place_id)
              THEN [r EXCEPT !.last_seen = t, !.scraped_count = @ + 1]
              ELSE r : r \in store}

\* record_scraped_places: one UPSERT per element of the list place_ids, in
\* the order of the list, all with the query_hash of the call
RECURSIVE record_scraped_places(_, _, _, _, _)
record_scraped_places(store, user_id, place_ids, query, t) ==
    IF place_ids = <<>> THEN store
    ELSE record_scraped_places(
           Upsert(store, user_id, Head(place_ids), make_query_hash(query, t), t),
           user_id, Tail(place_ids), query, t)

\* the place ids recorded for the user under the query, on any day
PlacesHeldFor(store, user_id, query) ==
    {r.place_id :
       r \in {x \in store : /\ x.user_id = user_id
                            /\ x.query_hash[1] = make_query_hash(query, 0)[1]}}

\* timedelta(days=CURSOR_TTL_DAYS) after t, in minutes
CURSOR_TTL_DAYS == 30
Days(n) == n * 24 * 60
ExpiresAt(t) == t + Days(CURSOR_TTL_DAYS)

\* the primary key of a new row (uuid4): a row is known by its user, its
\* hash and a number no other row of that user and hash carries
FreshId(store, user_id, query) ==
    CHOOSE i \in 1..(Cardinality(store) + 1) :
      \A r \in store : ~(/\ r.user_id = user_id
                          /\ r.query_hash = HashOf[query]
                          /\ r.id = i)

\* create_cursor, lines 146-167: a new row with zero counters is added,
\* whatever rows the table already holds
NewCursor(id, user_id, query, t) ==
    [id |-> id, user_id |-> user_id, query_hash |-> HashOf[query],
     query_original |-> query, query_normalized |-> NormalFormOf[query],
     last_scroll_position |-> 0, cards_collected |-> 0,
     last_place_id |-> None, last_card_index |-> None,
     total_scrolls_performed |-> 0, last_visible_card_count |-> 0,
     cursor_data |-> None, expires_at |-> ExpiresAt(t)]
create_cursor(store, user_id, query, t) ==
    store \cup {NewCursor(FreshId(store, user_id, query), user_id, query, t)}

\* the filter expires_at > utcnow() of get_cursor
LiveAlways(row, t) == TRUE
Live(row, t) == row.expires_at > t

\* get_cursor, lines 90-94: rows of the exact match, of which first() returns
\* one the database chooses
ExactMatches(store, user_id, query, t) ==
    {r \in store : /\ r.user_id = user_id
                   /\ r.query_hash = HashOf[query]
                   /\ Live(r, t)}

\* get_cursor, lines 107-122: the fallback returns the first live cursor of
\* the user whose original query matches fuzzily, in the order all() gives
FuzzyMatches(store, user_id, query, t) ==
    {r \in store : /\ r.user_id = user_id
                   /\ Live(r, t)
                   /\ FuzzyMatchOf[query][r.query_original]}

\* the values get_cursor can return: None or a row
get_cursor(store, user_id, query, t) ==
    IF ExactMatches(store, user_id, query, t) # {}
      THEN {Some(r) : r \in ExactMatches(store, user_id, query, t)}
    ELSE IF FuzzyMatches(store, user_id, query, t) # {}
      THEN {Some(r) : r \in FuzzyMatches(store, user_id, query, t)}
    ELSE {None}

\* update_cursor, lines 228-231: the lookup has no expiry filter
UpdateMatches(store, user_id, query) ==
    {r \in store : r.user_id = user_id /\ r.query_hash = HashOf[query]}

\* `if last_place_id:` is false for None and for the empty string
Truthy(opt) == opt # None /\ opt # Some("")

\* update_cursor, lines 236-254: the assignments to the row found
Updated(row, u, t) ==
    [row EXCEPT
       !.cards_collected = u.cards_collected,
       !.last_scroll_position = u.last_scroll_position,
       !.expires_at = ExpiresAt(t),
       !.last_place_id = IF Truthy(u.last_place_id) THEN u.last_place_id ELSE @,
       !.last_card_index = IF u.last_card_index # None THEN u.last_card_index ELSE @,
       !.total_scrolls_performed =
           IF u.total_scrolls # None
             THEN CHOOSE n \in u.total_scrolls : TRUE ELSE @,
       !.last_visible_card_count =
           IF u.visible_card_count # None
             THEN CHOOSE n \in u.visible_card_count : TRUE ELSE @,
       !.cursor_data = IF u.cursor_data # None THEN u.cursor_data ELSE @]

\* the tables update_cursor can leave: the row first() returned is updated,
\* or a row is created and updated
update_cursor(store, user_id, query, u, t) ==
    IF UpdateMatches(store, user_id, query) = {}
      THEN {store \cup {Updated(NewCursor(FreshId(store, user_id, query),
                                             user_id, query, t), u, t)}}
      ELSE {(store \ {r}) \cup {Updated(r, u, t)} :
              r \in UpdateMatches(store, user_id, query)}

\* clear_cursor, lines 289-294: every row of the user and hash is deleted
clear_cursor(store, user_id, query) == store \ UpdateMatches(store, user_id, query)

\* cleanup_expired_cursors, lines 346-351: rows with expires_at < utcnow()
Expirable(store, t) == {r \in store : r.expires_at < t}
cleanup_expired_cursors(store, t) == store \ Expirable(store, t)

\* the payloads update_cursor is called with: every argument given, and only
\* the required ones given
UpdatePayloads ==
    {[cards_collected |-> 5, last_scroll_position |-> 500,
      last_place_id |-> Some("p1"), last_card_index |-> Some(0),
      total_scrolls |-> Some(3), visible_card_count |-> Some(7),
      cursor_data |-> Some("d")],
     [cards_collected |-> 5, last_scroll_position |-> 500,
      last_place_id |-> Some(""), last_card_index |-> None,
      total_scrolls |-> None, visible_card_count |-> None,
      cursor_data |-> None]}

\* ------------------------------------------ CursorManager driven through its API
\* the call made and what it returned
Called(op, value) == [op |-> op, value |-> value]

\* the users and the queries of the calls: "x y", "Y, x" and "x yz"
CursorUsers == {1, NumUsers}
CursorQueries == {<<24, 0, 25>>, <<125, 99, 0, 24>>, <<24, 0, 25, 26>>}

CursorCreate(u, q) ==
    /\ Cardinality(cursors) < MaxRows
    /\ cursors' = create_cursor(cursors, u, q, now)
    /\ cursor_ret' = Called("create", None)
    /\ UNCHANGED <<poolVars, active_scrapes, taskVars, pipeVars, user_places, unitVars>>

CursorUpdate(u, q, payload) ==
    /\ UpdateMatches(cursors, u, q) = {} => Cardinality(cursors) < MaxRows
    /\ \E store \in update_cursor(cursors, u, q, payload, now) :
         /\ cursors' = store
         /\ cursor_ret' = Called("update", None)
    /\ UNCHANGED <<poolVars, active_scrapes, taskVars, pipeVars, user_places, unitVars>>

\* clear_cursor returns result > 0
CursorClear(u, q) ==
    /\ cursors' = clear_cursor(cursors, u, q)
    /\ cursor_ret' = Called("clear", Some(UpdateMatches(cursors, u, q) # {}))
    /\ UNCHANGED <<poolVars, active_scrapes, taskVars, pipeVars, user_places, unitVars>>

\* get_cursor touches last_accessed only, which the rows here do not carry
CursorGet(u, q) ==
    /\ \E found \in get_cursor(cursors, u, q, now) :
         cursor_ret' = Called("get", found)
    /\ UNCHANGED <<poolVars, active_scrapes, taskVars, pipeVars, user_places, cursors, unitVars>>

\* cleanup_expired_cursors returns the number of rows deleted
CursorCleanup ==
    /\ cursors' = cleanup_expired_cursors(cursors, now)
    /\ cursor_ret' = Called("cleanup", Some(Cardinality(Expirable(cursors, now))))
    /\ UNCHANGED <<poolVars, active_scrapes, taskVars, pipeVars, user_places, unitVars>>

\* days pass
CursorTick ==
    /\ now + Days(CursorTickDays) <= Days(MaxCursorDays)
    /\ now' = now + Days(CursorTickDays)
    /\ UNCHANGED <<sessions, playwright, browser, shutdown_flag, lock, waiters,
                   cleanup_task, contexts_open, pages_open, pc, result, life,
                   issued, active_scrapes, taskVars, pipeVars, storeVars,
                   unitVars>>

CursorInit ==
    PoolInit /\ TaskIdle /\ TrackerIdle /\ ScraperIdle /\ StoreIdle /\ UnitIdle

CursorNext ==
    \/ \E u \in CursorUsers, q \in CursorQueries : CursorCreate(u, q)
    \/ \E u \in CursorUsers, q \in CursorQueries, payload \in UpdatePayloads :
         CursorUpdate(u, q, payload)
    \/ \E u \in CursorUsers, q \in CursorQueries : CursorClear(u, q)
    \/ \E u \in CursorUsers, q \in CursorQueries : CursorGet(u, q)
    \/ CursorCleanup
    \/ CursorTick

SpecCursor == CursorInit /\ [][CursorNext]_vars

\* ============================================ scrape-async, background task
\* parameters of GoogleMapsScraper.scrape besides self
ScrapeParams == {"query", "target_count", "max_scrolls", "seen_places"}

\* keywords _run_scrape_with_progress passes to scraper.scrape
ScrapeCallKwargs == {"query", "target_count", "max_scrolls", "seen_places", "cursor"}

\* Python binds a call's keywords to the parameters: an unknown keyword is a
\* TypeError raised by the call itself
BindsOk(kwargs, params) == kwargs \subseteq params

\* a handler that names the browser's exception class only
CaughtPlaywrightOnly(e) == e = "PlaywrightError"

\* except Exception: every exception class the browser and the call raise
Caught(e) == e \in {"TypeError", "PlaywrightError"}

RequestTargets == {1, MaxTarget}
RequestScrolls == {Some(MaxScrolls)}
PipelineResults == {<<>>, <<1>>}

\* the query the requests carry: "x y"
AsyncQueries == {<<24, 0, 25>>}

\* lines 366-377: the call of get_user_seen_places with the keyword query,
\* and the handler's except, which leaves the empty set
LookupSeenPlaces(store, user_id, up) ==
    IF BindsOk(SeenPlacesCallKwargs, SeenPlacesParams) /\ up
      THEN get_user_seen_places(store, user_id)
      ELSE {}

\* line 386: get_cursor returns None when the database raises
LookupCursor(store, user_id, query, t, up) ==
    IF up THEN get_cursor(store, user_id, query, t) ELSE {None}

\* lines 388-394: the cursor_data handed to the task
CursorData(found) ==
    IF found # None /\ (CHOOSE r \in found : TRUE).cards_collected > 0
      THEN LET cursor == CHOOSE r \in found : TRUE
           IN  Some([last_scroll_position |-> cursor.last_scroll_position,
                     cards_collected |-> cursor.cards_collected,
                     last_place_id |-> cursor.last_place_id,
                     last_card_index |-> cursor.last_card_index])
      ELSE None

\* the keys of the dict GoogleMapsScraper.get_stats returns
StatsKeys == {"cards_found", "cards_extracted", "extraction_errors",
              "scrolls_performed", "stale_scrolls", "skipped_duplicates",
              "dedup_stats"}

\* lines 249-303: what the task records once scrape has returned; the
\* cursor is updated only if the stats carry a cursor_state
PersistenceSteps ==
    {"places", "session"} \cup
    (IF "cursor_state" \in StatsKeys THEN {"cursor"} ELSE {})

\* scrape_query_async, lines 362-437 (the handler has no await).  The
\* scrape id is uuid4()[:8], an id no scrape has used: each user starts at
\* most one scrape, and the scrape is named after its user.
scrape_query_async(u) ==
    /\ life = "serving"
    /\ task_pc[u] = "unused"
    /\ \E tc \in RequestTargets, ms \in RequestScrolls :
          active_scrapes' = create_scrape(active_scrapes, u, tc, ms)
    /\ \E q \in AsyncQueries : \E found \in LookupCursor(cursors, u, q, now, db_up) :
          /\ task_args' = [task_args EXCEPT ![u] =
                             [query |-> q,
                              seen_places |-> LookupSeenPlaces(user_places, u, db_up),
                              cursor_data |-> CursorData(found)]]
          /\ cursors' = IF db_up /\ CursorData(found) = None
                          THEN create_cursor(cursors, u, q, now)
                          ELSE cursors
    /\ task_pc' = [task_pc EXCEPT ![u] = "created"]
    /\ UNCHANGED <<poolVars, pipeVars, persisted, task_exc, task_results, op_failed,
                   scraper_browser, db_up, task_origin, user_places, cursor_ret, unitVars>>

\* lines 216-226: the first progress update, then GoogleMapsScraper.__aenter__
\* awaits start()
TaskStart(id) ==
    /\ task_pc[id] = "created"
    /\ active_scrapes' = update(active_scrapes, id,
                                Kwargs("scrolling", 2))
    /\ task_pc' = [task_pc EXCEPT ![id] = "aenter"]
    /\ UNCHANGED <<poolVars, pipeVars, persisted, task_exc, task_results, op_failed,
                   scraper_browser, db_up, task_args, task_origin, storeVars, unitVars>>

\* scraper.py lines 262-310: scrape() loads the search page and collects
\* from the top of the results feed
FirstScrollPosition == 0

\* the task leaves its try block with exception e: lines 310-312
Handle(a, id, e) == IF Caught(e) THEN fail_scrape(a, id, e) ELSE a

\* start() returns or raises; on return lines 228-236 call scraper.scrape,
\* whose outcome is an exception or the records it returns, and __aexit__
\* awaits close()
TaskEntered(id) ==
    /\ task_pc[id] = "aenter"
    /\ \E started \in BOOLEAN :
         IF ~started
           THEN /\ active_scrapes' = Handle(active_scrapes, id, "PlaywrightError")
                /\ op_failed' = [op_failed EXCEPT ![id] = TRUE]
                /\ task_pc' = [task_pc EXCEPT ![id] = "done"]
                /\ UNCHANGED <<task_exc, task_results, scraper_browser, task_origin>>
           ELSE /\ scraper_browser' = [scraper_browser EXCEPT ![id] = TRUE]
                /\ task_pc' = [task_pc EXCEPT ![id] = "aexit"]
                /\ IF ~BindsOk(ScrapeCallKwargs, ScrapeParams)
                     THEN /\ task_exc' = [task_exc EXCEPT ![id] = "TypeError"]
                          /\ UNCHANGED <<active_scrapes, task_results, op_failed,
                                         task_origin>>
                     ELSE \E raised \in BOOLEAN, r \in PipelineResults :
                          /\ task_origin' = [task_origin EXCEPT ![id] =
                                                Some(FirstScrollPosition)]
                          /\ IF raised
                               THEN /\ task_exc' = [task_exc EXCEPT ![id] =
                                                      "PlaywrightError"]
                                    /\ op_failed' = [op_failed EXCEPT ![id] = TRUE]
                                    /\ active_scrapes' =
                                         update(active_scrapes, id, Kwargs("failed", -1))
                                    /\ UNCHANGED task_results
                               ELSE /\ task_results' = [task_results EXCEPT ![id] = r]
                                    /\ active_scrapes' =
                                         update(active_scrapes, id,
                                                Kwargs("completed", 100))
                                    /\ UNCHANGED <<task_exc, op_failed>>
    /\ UNCHANGED <<poolVars, pipeVars, persisted, db_up, task_args, storeVars, unitVars>>

\* close() returns or raises; then the pending exception reaches the handler
\* of lines 310-312, or lines 238-308 run: the persistence block swallows
\* what the database raises and complete_scrape stores the records
TaskExited(id) ==
    /\ task_pc[id] = "aexit"
    /\ scraper_browser' = [scraper_browser EXCEPT ![id] = FALSE]
    /\ task_pc' = [task_pc EXCEPT ![id] = "done"]
    /\ \E closed \in BOOLEAN :
         LET e == IF closed THEN task_exc[id] ELSE "PlaywrightError"
         IN  /\ op_failed' = [op_failed EXCEPT ![id] = @ \/ ~closed]
             /\ task_exc' = [task_exc EXCEPT ![id] = e]
             /\ active_scrapes' =
                  IF e # "none" THEN Handle(active_scrapes, id, e)
                  ELSE complete_scrape(active_scrapes, id, task_results[id], TRUE)
             /\ persisted' = [persisted EXCEPT ![id] =
                                IF e = "none" /\ db_up THEN PersistenceSteps ELSE {}]
             /\ user_places' =
                  IF e = "none" /\ db_up
                    THEN record_scraped_places(
                           user_places, id,
                           task_results[id],
                           task_args[id].query, now)
                    ELSE user_places
    /\ UNCHANGED <<poolVars, pipeVars, task_results, db_up, task_args, task_origin,
                   cursors, cursor_ret, unitVars>>

\* the tables when the application starts with an earlier run's data:
\* empty; holding a cursor an earlier request created; holding the places
\* and the cursor an earlier scrape of user 1 recorded for "x y", and a
\* place the user found under "a x at y"
ResumeStores ==
    {<<NoPlaces, NoCursors>>,
     <<NoPlaces, create_cursor(NoCursors, 1, <<24, 0, 25>>, 0)>>,
     <<record_scraped_places(
         record_scraped_places(NoPlaces, 1, <<1, 2>>, <<24, 0, 25>>, 0),
         1, <<3>>, <<1, 0, 24, 0, 1, 20, 0, 25>>, 0),
       CHOOSE store \in update_cursor(NoCursors, 1, <<24, 0, 25>>,
                                      CHOOSE u \in UpdatePayloads :
                                        u.cursor_data # None, 0) : TRUE>>}

AsyncInit ==
    /\ PoolInit
    /\ TrackerIdle
    /\ ScraperIdle
    /\ task_pc = [id \in ScrapeIds |-> "unused"]
    /\ persisted = [id \in ScrapeIds |-> {}]
    /\ task_exc = [id \in ScrapeIds |-> "none"]
    /\ task_results = [id \in ScrapeIds |-> <<>>]
    /\ op_failed = [id \in ScrapeIds |-> FALSE]
    /\ scraper_browser = [id \in ScrapeIds |-> FALSE]
    /\ db_up \in BOOLEAN
    /\ task_args = [id \in ScrapeIds |-> NoArgs]
    /\ task_origin = [id \in ScrapeIds |-> None]
    /\ StoreIdle
    /\ UnitIdle

\* the application starts over the tables an earlier run left
ResumeInit ==
    /\ PoolInit
    /\ TrackerIdle
    /\ ScraperIdle
    /\ task_pc = [id \in ScrapeIds |-> "unused"]
    /\ persisted = [id \in ScrapeIds |-> {}]
    /\ task_exc = [id \in ScrapeIds |-> "none"]
    /\ task_results = [id \in ScrapeIds |-> <<>>]
    /\ op_failed = [id \in ScrapeIds |-> FALSE]
    /\ scraper_browser = [id \in ScrapeIds |-> FALSE]
    /\ db_up \in BOOLEAN
    /\ task_args = [id \in ScrapeIds |-> NoArgs]
    /\ task_origin = [id \in ScrapeIds |-> None]
    /\ UnitIdle
    /\ \E tables \in ResumeStores : user_places = tables[1] /\ cursors = tables[2]
    /\ cursor_ret = NoCall

AsyncNext ==
    \/ LifespanStartup
    \/ \E u \in Users : scrape_query_async(u)
    \/ \E id \in ScrapeIds : TaskStart(id)
    \/ \E id \in ScrapeIds : TaskEntered(id)
    \/ \E id \in ScrapeIds : TaskExited(id)

SpecAsync == AsyncInit /\ [][AsyncNext]_vars
SpecResume == ResumeInit /\ [][AsyncNext]_vars

\* the event loop runs every task that is ready, and every browser operation
\* returns or times out
AsyncFairness ==
    \A id \in ScrapeIds :
        /\ WF_vars(TaskStart(id))
        /\ WF_vars(TaskEntered(id))
        /\ WF_vars(TaskExited(id))

SpecAsyncFair == SpecAsync /\ AsyncFairness

\* the application runs while time passes: besides the requests and their
\* tasks nothing runs, no task or route of the application calls
\* cleanup_stale
ReaperUsers == {1}

ReaperNext ==
    \/ LifespanStartup
    \/ \E u \in ReaperUsers : scrape_query_async(u)
    \/ \E id \in ReaperUsers : TaskStart(id)
    \/ \E id \in ReaperUsers : TaskEntered(id)
    \/ \E id \in ReaperUsers : TaskExited(id)
    \/ Tick

SpecReaper == AsyncInit /\ [][ReaperNext]_vars /\ AsyncFairness /\ WF_vars(Tick)

\* ================================================ scraper pipeline progress
STALE_SCROLL_LIMIT == 5
max_consecutive_seen == 15

\* scroll progress counted from zero, as the comment "0-30%" has it
ScrollProgressFromZero(scroll_num, max_scrolls) == (scroll_num * 30) \div max_scrolls

\* 15 + int((scroll_num / max_scrolls) * 15); the float expression equals the
\* integer one for every max_scrolls the request schema admits
ScrollProgress(scroll_num, max_scrolls) == 15 + (scroll_num * 15) \div max_scrolls

\* 30 + int((extracted_count / total_tasks) * 65)
ExtractionProgress(extracted_count, total_tasks) ==
    30 + (extracted_count * 65) \div total_tasks

\* int(target_count * buffer_multiplier), the multiplier 1.5 with seen places
\* and 1.2 without
CollectionTarget(target_count, seen_places) ==
    IF seen_places # {} THEN (target_count * 15) \div 10
                        ELSE (target_count * 12) \div 10

\* the bound with target_count / 5 rounded up
CalculatedScrollsCeiling(target_count, max_scrolls) ==
    IF max_scrolls = None
      THEN Min(IF 20 > (target_count + 4) \div 5 THEN 20
               ELSE (target_count + 4) \div 5, 150)
      ELSE CHOOSE n \in max_scrolls : TRUE

\* max_scrolls as scrape() settles it: min(max(20, int(target_count / 5)), 150)
\* when the caller passed None
CalculatedScrolls(target_count, max_scrolls) ==
    IF max_scrolls = None
      THEN Min(IF 20 > target_count \div 5 THEN 20 ELSE target_count \div 5, 150)
      ELSE CHOOSE n \in max_scrolls : TRUE

\* GoogleMapsScraper._update_progress
update_progress(a, sc, kw) ==
    IF sc.progress_scrape_id # 0 THEN update(a, sc.progress_scrape_id, kw) ELSE a

ScrapeTargets == 1..MaxTarget
ScrapeScrolls == {None, Some(1), Some(2), Some(MaxScrolls)}

\* the seen sets a scrape is called with: the user has seen the first places
\* of the feed, the last ones, or every other one
SeenSets ==
    {1..n : n \in 0..NumPlaces} \cup {n..NumPlaces : n \in 1..NumPlaces}
      \cup {{p \in Places : p % 2 = 1}}

\* the scrape id of the one scrape this scraper runs
ScrapeTrackerIds == {1}

\* a caller that tracks progress: it creates the scrape's progress, reports
\* 2%, enters the scraper and sets its _progress_scrape_id
TrackedScrapeBegin ==
    /\ scraper.pc = "idle"
    /\ \E id \in ScrapeTrackerIds, tc \in ScrapeTargets, ms \in ScrapeScrolls,
          seen \in SeenSets :
         /\ active_scrapes' = update(create_scrape(active_scrapes, id, tc, ms), id,
                                     Kwargs("scrolling", 2))
         /\ scraper' = [scraper EXCEPT !.pc = "entered", !.progress_scrape_id = id,
                                       !.target_count = tc, !.max_scrolls = ms,
                                       !.seen_places = seen]
    /\ UNCHANGED <<poolVars, taskVars, storeVars, unitVars>>

\* the synchronous /scrape route: no progress id is set
UntrackedScrapeBegin ==
    /\ scraper.pc = "idle"
    /\ \E tc \in ScrapeTargets, ms \in ScrapeScrolls, seen \in SeenSets :
         scraper' = [scraper EXCEPT !.pc = "entered", !.target_count = tc,
                                    !.max_scrolls = ms, !.seen_places = seen]
    /\ UNCHANGED <<poolVars, taskVars, storeVars, active_scrapes, unitVars>>

\* scrape() up to its first await: max_scrolls is settled and 5% reported
ScrapeCall ==
    /\ scraper.pc = "entered"
    /\ scraper' = [scraper EXCEPT
                     !.pc = "context",
                     !.max_scrolls = CalculatedScrolls(scraper.target_count, @),
                     !.scrolls_performed = 0, !.skipped_duplicates = 0]
    /\ active_scrapes' = update_progress(active_scrapes, scraper, Kwargs("scrolling", 5))
    /\ UNCHANGED <<poolVars, taskVars, storeVars, unitVars>>

\* _create_context() and new_page() return, 8% is reported and goto awaited;
\* or one of them raises, outside the try block
ContextCreated ==
    /\ scraper.pc = "context"
    /\ \E ok \in BOOLEAN :
         IF ok
           THEN /\ scraper' = [scraper EXCEPT !.pc = "goto"]
                /\ active_scrapes' = update_progress(active_scrapes, scraper, Kwargs("-", 8))
           ELSE /\ scraper' = [scraper EXCEPT !.pc = "raised"]
                /\ UNCHANGED active_scrapes
    /\ UNCHANGED <<poolVars, taskVars, storeVars, unitVars>>

\* page.goto returns: 12%
PageLoaded ==
    /\ scraper.pc = "goto"
    /\ scraper' = [scraper EXCEPT !.pc = "loaded"]
    /\ active_scrapes' = update_progress(active_scrapes, scraper, Kwargs("-", 12))
    /\ UNCHANGED <<poolVars, taskVars, storeVars, unitVars>>

\* the delay and the consent popup are over: 15%, and the scroll loop starts
\* on a page that shows the first cards of the feed
StartCollect ==
    /\ scraper.pc = "loaded"
    /\ \E shown \in 0..NumPlaces :
         scraper' = [scraper EXCEPT !.pc = "scroll", !.scroll_num = 0,
                                   !.visible = shown,
                                   !.consecutive_seen_duplicates = 0,
                                   !.card_links = <<>>, !.stale_count = 0,
                                   !.seen_met = {}, !.last_productive = 0,
                                   !.stopped = "no"]
    /\ active_scrapes' = update_progress(active_scrapes, scraper, Kwargs("-", 15))
    /\ UNCHANGED <<poolVars, taskVars, storeVars, unitVars>>

\* the place id is one of the keys of the dict card_links
Collected(place_id, card_links) ==
    \E i \in DOMAIN card_links : card_links[i] = place_id

\* a collection loop that skips no card
SkipsNothing(place_id, seen_places) == FALSE

\* line 424: the card of a place the user has seen is skipped
Skips(place_id, seen_places) == place_id \in seen_places

\* what one pass over the cards leaves: the dict, the two counters, the seen
\* places it met, and whether it returned at the target
Pass(card_links, consecutive, skipped, met, reached) ==
    [card_links |-> card_links, consecutive_seen_duplicates |-> consecutive,
     skipped_duplicates |-> skipped, seen_met |-> met, reached |-> reached]

\* line 425: a seen place is counted unless it is a key of card_links
Counts(place_id, card_links, met) == ~Collected(place_id, card_links)

\* lines 410-455: the loop over the cards the page shows, which are the
\* first k places of the results feed, from card p on.  It ends at the last
\* card, or returns as soon as card_links holds target_count places.
RECURSIVE CollectFrom(_, _, _, _, _, _, _, _)
CollectFrom(p, k, card_links, seen_places, target_count, consecutive, skipped, met) ==
    IF p > k
      THEN Pass(card_links, consecutive, skipped, met, FALSE)
    ELSE IF Skips(p, seen_places)
      THEN IF Counts(p, card_links, met)
             THEN CollectFrom(p + 1, k, card_links, seen_places, target_count,
                              consecutive + 1, skipped + 1, met \cup {p})
             ELSE CollectFrom(p + 1, k, card_links, seen_places, target_count,
                              consecutive, skipped, met \cup {p})
    ELSE IF Collected(p, card_links)
      THEN CollectFrom(p + 1, k, card_links, seen_places, target_count, 0,
                       skipped, met)
    ELSE IF Len(card_links) + 1 >= target_count
      THEN Pass(Append(card_links, p), 0, skipped, met, TRUE)
    ELSE CollectFrom(p + 1, k, Append(card_links, p), seen_places, target_count,
                     0, skipped, met)

\* the stale counter never reset
StaleNeverReset(stale_count, new_cards) == stale_count + 1

\* lines 475-488: one more stale scroll, or none after a scroll with new cards
StaleAfter(stale_count, new_cards) == IF new_cards = 0 THEN stale_count + 1 ELSE 0

\* the early exit tested against the cards collected as well
EarlyExitBelowTarget(consecutive, cards_after) ==
    consecutive >= max_consecutive_seen /\ cards_after > 0

\* line 462: the early exit looks at the consecutive counter only
EarlyExit(consecutive, cards_after) == consecutive >= max_consecutive_seen

\* one iteration of the loop of _collect_unique_card_links.  The feed has
\* loaded some more cards since the last iteration; the iteration reads
\* every card the page shows, or locator().all() raises and it reads none
\* (line 457).  seen_met, last_productive and stopped record what the loop
\* did: the seen places it passed, the iteration that last added a card and
\* the way it ended.
ScrollIteration ==
    /\ scraper.pc = "scroll"
    /\ \E loaded \in 0..MaxNewCards, listed \in BOOLEAN :
         LET target == CollectionTarget(scraper.target_count, scraper.seen_places)
             k == Min(scraper.visible + loaded, NumPlaces)
             pass == CollectFrom(1, IF listed THEN k ELSE 0, scraper.card_links,
                                 scraper.seen_places, target,
                                 scraper.consecutive_seen_duplicates,
                                 scraper.skipped_duplicates, scraper.seen_met)
             cards_after == Len(pass.card_links)
             new_cards == cards_after - Len(scraper.card_links)
             stale == StaleAfter(scraper.stale_count, new_cards)
             read == [scraper EXCEPT
                        !.visible = k,
                        !.scrolls_performed = @ + 1,
                        !.card_links = pass.card_links,
                        !.consecutive_seen_duplicates =
                            pass.consecutive_seen_duplicates,
                        !.skipped_duplicates = pass.skipped_duplicates,
                        !.seen_met = pass.seen_met,
                        !.last_productive =
                            IF new_cards > 0 THEN scraper.scrolls_performed + 1
                                             ELSE @]
         IN  IF pass.reached
               THEN /\ scraper' = [read EXCEPT !.pc = "collected",
                                               !.stopped = "target"]
                    /\ UNCHANGED active_scrapes
             ELSE IF EarlyExit(pass.consecutive_seen_duplicates, cards_after)
               THEN /\ scraper' = [read EXCEPT !.pc = "collected",
                                               !.stopped = "seen"]
                    /\ active_scrapes' =
                         update_progress(active_scrapes, scraper,
                                         "cards_found" :> cards_after)
             ELSE IF stale >= STALE_SCROLL_LIMIT
               THEN /\ scraper' = [read EXCEPT !.pc = "collected",
                                               !.stale_count = stale,
                                               !.stopped = "stale"]
                    /\ UNCHANGED active_scrapes
             ELSE /\ scraper' =
                       [read EXCEPT
                          !.pc = IF scraper.scroll_num + 1 < scraper.max_scrolls
                                   THEN "scroll" ELSE "collected",
                          !.stopped = IF scraper.scroll_num + 1 < scraper.max_scrolls
                                        THEN "no" ELSE "max_scrolls",
                          !.stale_count = stale,
                          !.scroll_num = @ + 1]
                  /\ active_scrapes' =
                       update_progress(active_scrapes, scraper,
                           Kwargs("-", ScrollProgress(scraper.scroll_num,
                                                      scraper.max_scrolls))
                           @@ ("cards_found" :> cards_after)
                           @@ ("scrolls_done" :> scraper.scroll_num + 1))
    /\ UNCHANGED <<poolVars, taskVars, storeVars, unitVars>>

\* goto, the consent popup or a scroll raises inside the try block: the
\* handler of scrape() reports failed and re-raises
ScrapeRaised ==
    /\ scraper.pc \in {"goto", "loaded", "scroll"}
    /\ scraper' = [scraper EXCEPT !.pc = "raised"]
    /\ active_scrapes' = update_progress(active_scrapes, scraper,
                             Kwargs("failed", -1) @@ ("error_message" :> "PlaywrightError"))
    /\ UNCHANGED <<poolVars, taskVars, storeVars, unitVars>>

\* _collect_unique_card_links has returned card_links and its other locals
\* are gone; _extract_details_parallel up to gather: status extracting, 30%
StartExtraction ==
    /\ scraper.pc = "collected"
    /\ scraper' = [scraper EXCEPT !.pc = "extracting",
                                  !.total_tasks = Len(scraper.card_links),
                                  !.extracted_count = 0, !.finished = 0,
                                  !.extracted = <<>>,
                                  !.scroll_num = 0, !.visible = 0,
                                  !.consecutive_seen_duplicates = 0,
                                  !.stale_count = 0, !.seen_met = {},
                                  !.last_productive = 0, !.stopped = "no"]
    /\ active_scrapes' = update_progress(active_scrapes, scraper,
                             Kwargs("extracting", 30)
                             @@ ("cards_found" :> Len(scraper.card_links)))
    /\ UNCHANGED <<poolVars, taskVars, storeVars, unitVars>>

\* one extract_with_semaphore finishes, with a record or with None.  The
\* record carries the place id its card was collected under (line 739).
\* gather returns the records in the order of card_links whatever task
\* finishes first, and the updates carry counts only: the tasks are taken in
\* the order of card_links.
ExtractOne ==
    /\ scraper.pc = "extracting"
    /\ scraper.finished < scraper.total_tasks
    /\ \E got \in BOOLEAN :
         IF got
           THEN /\ scraper' = [scraper EXCEPT
                                  !.finished = @ + 1,
                                  !.extracted_count = @ + 1,
                                  !.extracted =
                                      Append(@, scraper.card_links[scraper.finished + 1])]
                /\ active_scrapes' =
                     update_progress(active_scrapes, scraper,
                         Kwargs("-", ExtractionProgress(scraper.extracted_count + 1,
                                                        scraper.total_tasks))
                         @@ ("cards_extracted" :> scraper.extracted_count + 1))
           ELSE /\ scraper' = [scraper EXCEPT !.finished = @ + 1]
                /\ UNCHANGED active_scrapes
    /\ UNCHANGED <<poolVars, taskVars, storeVars, unitVars>>

\* lines 602-622: the records of the places in kept, in their order
RECURSIVE Kept(_, _)
Kept(extracted, kept) ==
    IF extracted = <<>> THEN <<>>
    ELSE IF Head(extracted) \in kept
      THEN <<Head(extracted)>> \o Kept(Tail(extracted), kept)
    ELSE Kept(Tail(extracted), kept)

\* a scrape that returns every record it kept
Untrimmed(results, target_count) == results

\* results[:target_count]
Trimmed(results, target_count) ==
    SubSeq(results, 1, Min(Len(results), target_count))

\* gather returns: 95%, then the records with a valid name that are not
\* duplicates are kept
ExtractionDone ==
    /\ scraper.pc = "extracting"
    /\ scraper.finished = scraper.total_tasks
    /\ \E kept \in SUBSET Places :
         scraper' = [scraper EXCEPT !.pc = "filtered",
                                    !.results = Kept(scraper.extracted, kept)]
    /\ active_scrapes' = update_progress(active_scrapes, scraper, Kwargs("-", 95))
    /\ UNCHANGED <<poolVars, taskVars, storeVars, unitVars>>

\* scrape() trims the records to target_count and reports completed, 100%;
\* then its finally clause awaits context.close(), which returns, and scrape
\* returns the records, or raises, and scrape raises
ScrapeReturn ==
    /\ scraper.pc = "filtered"
    /\ \E closed \in BOOLEAN :
         scraper' = [scraper EXCEPT !.pc = IF closed THEN "returned" ELSE "raised",
                                    !.results = Trimmed(@, scraper.target_count)]
    /\ active_scrapes' = update_progress(active_scrapes, scraper,
                             Kwargs("completed", 100)
                             @@ ("unique_results" :>
                                   Len(Trimmed(scraper.results, scraper.target_count)))
                             @@ ("cards_extracted" :> Len(scraper.results)))
    /\ UNCHANGED <<poolVars, taskVars, storeVars, unitVars>>

\* the caller that tracks progress, after scrape() (routes/scraping.py lines
\* 224-310): the scraper's __aexit__ closes the browser and the records are
\* converted, either of which may raise; the history is recorded in a try
\* block of its own; then complete_scrape_progress stores the records.  An
\* exception of scrape(), of the exit or of the conversion reaches the
\* handler, which calls fail_scrape_progress
TrackedScrapeEnd ==
    /\ scraper.pc \in {"returned", "raised"}
    /\ scraper.progress_scrape_id # 0
    /\ \E raised \in BOOLEAN :
         /\ scraper.pc = "raised" => raised
         /\ active_scrapes' =
              IF raised
                THEN fail_scrape(active_scrapes, scraper.progress_scrape_id,
                                 "PlaywrightError")
                ELSE complete_scrape(active_scrapes, scraper.progress_scrape_id,
                                     scraper.results, TRUE)
         /\ scraper' = [scraper EXCEPT !.pc = IF raised THEN "failed" ELSE "completed"]
    /\ UNCHANGED <<poolVars, taskVars, storeVars, unitVars>>

ScrapeInit ==
    PoolInit /\ TaskIdle /\ TrackerIdle /\ ScraperIdle /\ StoreIdle /\ UnitIdle

ScrapeNext ==
    \/ TrackedScrapeBegin
    \/ UntrackedScrapeBegin
    \/ ScrapeCall
    \/ ContextCreated
    \/ PageLoaded
    \/ StartCollect
    \/ ScrollIteration
    \/ ScrapeRaised
    \/ StartExtraction
    \/ ExtractOne
    \/ ExtractionDone
    \/ ScrapeReturn
    \/ TrackedScrapeEnd

SpecScrape == ScrapeInit /\ [][ScrapeNext]_vars

\* ====================================================== deduplication service
\* Identifiers are strings (sequences of characters as in the normalizer, 97
\* a question mark and 96 a vertical bar) or None.
QuestionMark == 97
Bar == 96

\* `if x:` on an optional string: false for None and for the empty string
Present(opt) == opt # None /\ opt # Some(<<>>)
Val(opt) == CHOOSE x \in opt : TRUE

\* str.lower
LowerStr(s) == [i \in DOMAIN s |-> Lower(s[i])]

\* href.split('?')[0]
RECURSIVE BeforeQuery(_)
BeforeQuery(s) ==
    IF s = <<>> \/ Head(s) = QuestionMark THEN <<>>
    ELSE <<Head(s)>> \o BeforeQuery(Tail(s))

\* href.split('?')[0].lower()
HrefNormalized(href) == LowerStr(BeforeQuery(href))

\* f"{name.lower().strip()}|{address.lower().strip()}"
NameAddrKey(name, address) ==
    Strip(LowerStr(name)) \o <<Bar>> \o Strip(LowerStr(address))

\* is_duplicate: every check is made in turn, each on its own set, and the
\* first that matches returns True; total_checked counts the call
is_duplicate(svc, r) ==
    LET checked == [svc EXCEPT !.dedup_stats.total_checked = @ + 1]
        dup == \/ /\ Present(r.place_id)
                  /\ LowerStr(Val(r.place_id)) \in svc.seen_place_ids
               \/ /\ Present(r.cid)
                  /\ Val(r.cid) \in svc.seen_cids
               \/ /\ Present(r.href)
                  /\ HrefNormalized(Val(r.href)) \in svc.seen_hrefs
               \/ /\ Present(r.name) /\ Present(r.address)
                  /\ NameAddrKey(Val(r.name), Val(r.address))
                       \in svc.seen_names_addresses
    IN  [service |-> IF dup
                       THEN [checked EXCEPT !.dedup_stats.duplicates_removed = @ + 1]
                       ELSE checked,
         ret |-> dup]

Bump(n, cond) == IF cond THEN n + 1 ELSE n

\* add_place: a duplicate changes no set; a unique record enters every set
\* it has an identifier for
add_place(svc, r) ==
    LET c == is_duplicate(svc, r)
        named == Present(r.name) /\ Present(r.address)
    IN  IF c.ret THEN [service |-> c.service, ret |-> FALSE]
        ELSE [service |->
                [seen_place_ids |->
                   IF Present(r.place_id)
                     THEN svc.seen_place_ids \cup {LowerStr(Val(r.place_id))}
                     ELSE svc.seen_place_ids,
                 seen_cids |->
                   IF Present(r.cid) THEN svc.seen_cids \cup {Val(r.cid)}
                   ELSE svc.seen_cids,
                 seen_hrefs |->
                   IF Present(r.href)
                     THEN svc.seen_hrefs \cup {HrefNormalized(Val(r.href))}
                     ELSE svc.seen_hrefs,
                 seen_names_addresses |->
                   IF named
                     THEN svc.seen_names_addresses
                            \cup {NameAddrKey(Val(r.name), Val(r.address))}
                     ELSE svc.seen_names_addresses,
                 dedup_stats |->
                   [c.service.dedup_stats EXCEPT
                      !.by_place_id = Bump(@, Present(r.place_id)),
                      !.by_cid = Bump(@, Present(r.cid)),
                      !.by_href = Bump(@, Present(r.href)),
                      !.by_name_address = Bump(@, named),
                      !.unique_kept = @ + 1]],
              ret |-> TRUE]

\* process_result: result.get(key) of each identifier, then add_place
process_result(svc, res) ==
    add_place(svc, [place_id |-> res.place_id, cid |-> res.cid,
                    href |-> res.href, name |-> res.name,
                    address |-> res.address])

\* the records fed: place ids "a", "A" and "b", cids "g" and "h", hrefs "h"
\* and "H?q", names "n" and "N " at the address "a", each possibly absent
DedupRecords ==
    [place_id : {None, Some(<<1>>), Some(<<101>>), Some(<<2>>)},
     cid : {None, Some(<<7>>), Some(<<8>>)},
     href : {None, Some(<<8>>), Some(<<108, QuestionMark, 17>>)},
     name : {None, Some(<<14>>), Some(<<114, Space>>)},
     address : {Some(<<1>>)}]

\* ------------------------------------------- dedup service driven through its API
Fed(run, r, ret) ==
    [fed |-> Append(run.fed, r),
     accepted |-> IF ret THEN Append(run.accepted, r) ELSE run.accepted]

DedupAddPlace(r) ==
    /\ Len(dedup_run.fed) < MaxFed
    /\ LET a == add_place(dedup_service, r)
       IN  /\ dedup_service' = a.service
           /\ dedup_run' = Fed(dedup_run, r, a.ret)
    /\ UNCHANGED <<poolVars, active_scrapes, taskVars, pipeVars, storeVars,
                   extraction, history_ret, sizing, normalized, close_faults, threads, resets>>

DedupProcessResult(r) ==
    /\ Len(dedup_run.fed) < MaxFed
    /\ LET a == process_result(dedup_service, r)
       IN  /\ dedup_service' = a.service
           /\ dedup_run' = Fed(dedup_run, r, a.ret)
    /\ UNCHANGED <<poolVars, active_scrapes, taskVars, pipeVars, storeVars,
                   extraction, history_ret, sizing, normalized, close_faults, threads, resets>>

\* reset(): a new run begins
DedupReset ==
    /\ dedup_service' = DedupFresh
    /\ dedup_run' = NoRun
    /\ UNCHANGED <<poolVars, active_scrapes, taskVars, pipeVars, storeVars,
                   extraction, history_ret, sizing, normalized, close_faults, threads, resets>>

DedupInit ==
    PoolInit /\ TaskIdle /\ TrackerIdle /\ ScraperIdle /\ StoreIdle /\ UnitIdle

DedupNext ==
    \/ \E r \in DedupRecords : DedupAddPlace(r)
    \/ \E r \in DedupRecords : DedupProcessResult(r)
    \/ DedupReset

SpecDedup == DedupInit /\ [][DedupNext]_vars

\* ======================================================= parallel extraction
\* _extract_details_parallel: one task per card link, gathered; each task
\* runs extract_with_semaphore.  A task is at one of its awaits:
\*   "created"  not yet run            "waiting"  in semaphore.acquire()
\*   "context"  in _create_context()   "page"     in context.new_page()
\*   "details"  in the try block of _extract_card_details
\*   "closing"  in context.close() of its finally clause, on the way out
\*   "done"     returned to gather
\* returned[i] is what task i returns or is about to return: "details" for
\* the dict of the business, "None", or "pending".  finish_order lists the
\* tasks in the order they finished; gathered says that gather has returned,
\* and results is the list the method returned then: the cards are named by
\* their place in card_links, which is the order they were collected in.
ExtractionParams == (0..MaxCards) \X (1..MaxConcurrent)

CardTasks == DOMAIN extraction.task_pc

\* asyncio.Semaphore.locked(): no permit is left or a task is queued
Locked(e) == e.value = 0 \/ e.waiters # <<>>

\* a semaphore that admits every task
AcquireAlways(e, i) == [e EXCEPT !.task_pc[i] = "context"]

\* asyncio.Semaphore.acquire(): a permit is taken at once, or the task queues
Acquire(e, i) ==
    IF ~Locked(e)
      THEN [e EXCEPT !.value = @ - 1, !.task_pc[i] = "context"]
      ELSE [e EXCEPT !.waiters = Append(@, i), !.task_pc[i] = "waiting"]

\* asyncio.Semaphore.release(): the permit goes to the first queued task,
\* which goes on to _create_context(), or back to the semaphore
Release(e) ==
    IF e.waiters # <<>>
      THEN [e EXCEPT !.waiters = Tail(@), !.task_pc[Head(e.waiters)] = "context"]
      ELSE [e EXCEPT !.value = @ + 1]

\* lines 573-576: the exception reaching extract_with_semaphore is counted and
\* the task returns None, leaving the async with
Failed(e, i) ==
    Release([e EXCEPT !.extraction_errors = @ + 1, !.returned[i] = "None",
                      !.task_pc[i] = "done", !.finish_order = Append(@, i)])

\* lines 543-546 and 579-587: the semaphore is created and the tasks gathered
ExtractionCalled(cards, max_concurrent) ==
    /\ extraction = NoExtraction \/ extraction.gathered
    /\ extraction' = [NoExtraction EXCEPT
                        !.max_concurrent = max_concurrent,
                        !.value = max_concurrent,
                        !.task_pc = [i \in 1..cards |-> "created"],
                        !.returned = [i \in 1..cards |-> "pending"]]
    /\ UNCHANGED <<poolVars, active_scrapes, taskVars, pipeVars, storeVars,
                   dedup_service, dedup_run, history_ret, sizing, normalized, close_faults, threads, resets>>

\* a task runs up to its first await
TaskRuns(i) ==
    /\ extraction.task_pc[i] = "created"
    /\ extraction' = Acquire(extraction, i)
    /\ UNCHANGED <<poolVars, active_scrapes, taskVars, pipeVars, storeVars,
                   dedup_service, dedup_run, history_ret, sizing, normalized, close_faults, threads, resets>>

\* _create_context() returns the task's context, or raises
ContextOpened(i) ==
    /\ extraction.task_pc[i] = "context"
    /\ \E ok \in BOOLEAN :
         extraction' = IF ok THEN [extraction EXCEPT !.contexts = @ \cup {i},
                                                     !.task_pc[i] = "page"]
                             ELSE Failed(extraction, i)
    /\ UNCHANGED <<poolVars, active_scrapes, taskVars, pipeVars, storeVars,
                   dedup_service, dedup_run, history_ret, sizing, normalized, close_faults, threads, resets>>

\* context.new_page() returns, or raises before the try block is entered:
\* nothing closes the context
PageOpened(i) ==
    /\ extraction.task_pc[i] = "page"
    /\ \E ok \in BOOLEAN :
         extraction' =
           IF ok THEN [extraction EXCEPT !.task_pc[i] = "details"]
                 ELSE Failed([extraction EXCEPT !.contexts = @ \ {i},
                                                !.orphans = @ + 1], i)
    /\ UNCHANGED <<poolVars, active_scrapes, taskVars, pipeVars, storeVars,
                   dedup_service, dedup_run, history_ret, sizing, normalized, close_faults, threads, resets>>

\* lines 761-763: a timeout, a missing element or a navigation error inside
\* the try block is logged and None is returned
CardError(e, i) == [e EXCEPT !.returned[i] = "None"]

\* the try block of _extract_card_details ends: the details are ready or an
\* operation on the page raised; the finally clause closes the context
DetailsRead(i) ==
    /\ extraction.task_pc[i] = "details"
    /\ \E ok \in BOOLEAN :
         extraction' =
           IF ok THEN [extraction EXCEPT !.returned[i] = "details",
                                         !.task_pc[i] = "closing"]
                 ELSE [CardError(extraction, i) EXCEPT !.task_pc[i] = "closing"]
    /\ UNCHANGED <<poolVars, active_scrapes, taskVars, pipeVars, storeVars,
                   dedup_service, dedup_run, history_ret, sizing, normalized, close_faults, threads, resets>>

\* context.close() returns and _extract_card_details returns its result
\* (lines 565-572 count the details), or close() raises
ContextClosed(i) ==
    /\ extraction.task_pc[i] = "closing"
    /\ \E ok \in BOOLEAN :
         LET closed == [extraction EXCEPT !.contexts = @ \ {i}]
         IN  extraction' =
               IF ok
                 THEN Release([closed EXCEPT
                                 !.task_pc[i] = "done",
                                 !.finish_order = Append(@, i),
                                 !.extracted_count =
                                     IF extraction.returned[i] = "details"
                                       THEN @ + 1 ELSE @])
                 ELSE Failed(closed, i)
    /\ UNCHANGED <<poolVars, active_scrapes, taskVars, pipeVars, storeVars,
                   dedup_service, dedup_run, history_ret, sizing, normalized, close_faults, threads, resets>>

\* a gather that lists what the tasks returned in the order they finished,
\* as asyncio.as_completed would
GatheredAsCompleted(e) ==
    [k \in DOMAIN e.finish_order |->
       IF e.returned[e.finish_order[k]] = "details"
         THEN Some(e.finish_order[k]) ELSE None]

\* line 590, asyncio.gather(*tasks): the list of what the tasks returned, in
\* the order of the tasks, which lines 578-587 made in the order of
\* card_links; an entry is the record of card i or None
Gathered(e) ==
    [i \in DOMAIN e.returned |->
       IF e.returned[i] = "details" THEN Some(i) ELSE None]

\* lines 598-622: the loop over the gathered list skips None and appends the
\* records in the order of the list
RECURSIVE ResultsOf(_)
ResultsOf(extracted) ==
    IF extracted = <<>> THEN <<>>
    ELSE IF Head(extracted) = None THEN ResultsOf(Tail(extracted))
    ELSE <<Val(Head(extracted))>> \o ResultsOf(Tail(extracted))

\* gather returns and the method returns its results; the next call starts
\* afresh
ExtractionReturned ==
    /\ extraction # NoExtraction
    /\ ~extraction.gathered
    /\ \A i \in CardTasks : extraction.task_pc[i] = "done"
    /\ extraction' = [extraction EXCEPT
                        !.gathered = TRUE,
                        !.results = ResultsOf(Gathered(extraction))]
    /\ UNCHANGED <<poolVars, active_scrapes, taskVars, pipeVars, storeVars,
                   dedup_service, dedup_run, history_ret, sizing, normalized, close_faults, threads, resets>>

ExtractInit ==
    PoolInit /\ TaskIdle /\ TrackerIdle /\ ScraperIdle /\ StoreIdle /\ UnitIdle

ExtractNext ==
    \/ \E params \in ExtractionParams : ExtractionCalled(params[1], params[2])
    \/ \E i \in CardTasks : TaskRuns(i)
    \/ \E i \in CardTasks : ContextOpened(i)
    \/ \E i \in CardTasks : PageOpened(i)
    \/ \E i \in CardTasks : DetailsRead(i)
    \/ \E i \in CardTasks : ContextClosed(i)
    \/ ExtractionReturned

SpecExtract == ExtractInit /\ [][ExtractNext]_vars

\* ======================================================= normalizer calls
\* QueryNormalizer.normalize called on the phrases made of the words 'the',
\* 'best', 'dentist', 'near' and 'amritsar' in any order, with spaces around

\* the words of the phrases
The == <<20, 8, 5>>
Best == <<2, 5, 19, 20>>
Dentist == <<4, 5, 14, 20, 9, 19, 20>>
Near == <<14, 5, 1, 18>>
Amritsar == <<1, 13, 18, 9, 20, 19, 1, 18>>
PhraseWords == {The, Best, Dentist, Near, Amritsar}

\* n spaces
Spaces(n) == [i \in 1..n |-> Space]

\* the words of the sequence joined by one space, with pad spaces before and
\* after
Phrase(words, pad) == Spaces(pad) \o Join(words) \o Spaces(pad)

\* the orders the five words can come in
WordOrders ==
    {order \in [1..Cardinality(PhraseWords) -> PhraseWords] :
       \A i, j \in DOMAIN order : i # j => order[i] # order[j]}

NormalizerQueries == {Phrase(order, pad) : order \in WordOrders, pad \in 0..MaxPad}

\* QueryNormalizer.normalize(query)
NormalizeCalled(query) ==
    /\ normalized' = [query |-> query, value |-> Some(normalize(query))]
    /\ UNCHANGED <<poolVars, active_scrapes, taskVars, pipeVars, storeVars,
                   dedup_service, dedup_run, extraction, history_ret, sizing,
                   close_faults, threads, resets>>

NormalizerInit ==
    PoolInit /\ TaskIdle /\ TrackerIdle /\ ScraperIdle /\ StoreIdle /\ UnitIdle

NormalizerNext == \E query \in NormalizerQueries : NormalizeCalled(query)

SpecNormalizer == NormalizerInit /\ [][NormalizerNext]_vars

\* ============================================================ scrape sizes
\* the two sizes scrape() computes from its arguments before the collection
\* loop runs, for any target_count a caller can pass

\* seen_places of the call: none, or one place
SizedSeen == {{}, {1}}
\* max_scrolls of the call: not supplied, or the request's default
SizedScrolls == {None, Some(50)}

\* scrape(query, target_count, max_scrolls, seen_places), lines 215-229 and
\* 294-298
ScrapeSized(target_count, max_scrolls, seen_places) ==
    /\ sizing' = [target_count |-> target_count, seen_places |-> seen_places,
                  max_scrolls |-> max_scrolls,
                  scroll_bound |-> CalculatedScrolls(target_count, max_scrolls),
                  collection_target |-> CollectionTarget(target_count, seen_places)]
    /\ UNCHANGED <<poolVars, active_scrapes, taskVars, pipeVars, storeVars,
                   dedup_service, dedup_run, extraction, history_ret, normalized, close_faults, threads, resets>>

SizingInit ==
    PoolInit /\ TaskIdle /\ TrackerIdle /\ ScraperIdle /\ StoreIdle /\ UnitIdle

SizingNext ==
    \E target_count \in 1..MaxSizedTarget, max_scrolls \in SizedScrolls,
       seen_places \in SizedSeen :
      ScrapeSized(target_count, max_scrolls, seen_places)

SpecSizing == SizingInit /\ [][SizingNext]_vars

\* ========================================================= history service
\* HistoryService.record_scraped_places called by any caller, any number of
\* times, while the clock runs

\* the calls made: a user and the list place_ids (a place twice in one list,
\* a place two users record, the empty list)
HistoryCalls ==
    {<<1, <<>>>>, <<1, <<1>>>>, <<1, <<2, 1>>>>, <<1, <<1, 1>>>>, <<2, <<1>>>>}
HistoryQueries == {<<24, 0, 25>>, <<24, 0, 25, 26>>}

\* the elements of a list
Range(seq) == {seq[i] : i \in DOMAIN seq}

\* the rows of the user the list names
Recorded(store, user_id, place_ids) ==
    {r \in store : r.user_id = user_id /\ r.place_id \in Range(place_ids)}

\* record_scraped_places(user_id, place_ids, query): an empty list returns 0
\* before the table is touched; an exception of execute or commit rolls the
\* transaction back and returns 0; otherwise every element is upserted and
\* counted (rowcount is 1 for an insert and for an update)
RecordScrapedPlaces(user_id, place_ids, query) ==
    /\ \A r \in Recorded(user_places, user_id, place_ids) :
         r.scraped_count + Len(place_ids) <= MaxScraped
    /\ \E raised \in BOOLEAN :
         /\ raised => place_ids # <<>>
         /\ user_places' =
              IF raised THEN user_places
              ELSE record_scraped_places(user_places, user_id, place_ids, query, now)
         /\ history_ret' = [user_id |-> user_id, place_ids |-> place_ids,
                            before |-> user_places, at |-> now, raised |-> raised,
                            value |-> Some(IF raised THEN 0 ELSE Len(place_ids))]
    /\ UNCHANGED <<poolVars, active_scrapes, taskVars, pipeVars, cursors, cursor_ret,
                   dedup_service, dedup_run, extraction, sizing, normalized, close_faults, threads, resets>>

HistoryInit ==
    PoolInit /\ TaskIdle /\ TrackerIdle /\ ScraperIdle /\ StoreIdle /\ UnitIdle

HistoryNext ==
    \/ \E call \in HistoryCalls, query \in HistoryQueries :
         RecordScrapedPlaces(call[1], call[2], query)
    \/ Tick

SpecHistory == HistoryInit /\ [][HistoryNext]_vars

\* ------------------------------------------------------------------ claims
\* C1: under any interleaving of get_session, release_session,
\* reset_session and eager or background cleanup, the number of stored
\* sessions never exceeds max_sessions.
C1_ActiveAtMostMax == Cardinality(DOMAIN sessions) <= max_sessions

\* the pool is full and holds a session that was admitted after the clock
\* had advanced
C1_Witness ==
    /\ Cardinality(DOMAIN sessions) = max_sessions
    /\ \E u \in DOMAIN sessions : sessions[u].created_at > 0 /\ result[u] = "ok"

\* C2: get_session of a user without a session, while the pool holds
\* max_sessions sessions none of which is idle longer than idle_timeout or
\* older than session_max_age, fails with the max-sessions error and leaves
\* the session map as it was.
C2_FullPoolRejects ==
    [][\A u \in Users :
         ( /\ pc[u] = "get_admit"
           /\ pc'[u] # "get_admit"
           /\ u \notin DOMAIN sessions
           /\ Cardinality(DOMAIN sessions) = max_sessions
           /\ \A v \in DOMAIN sessions :
                /\ now - sessions[v].last_activity <= idle_timeout_minutes
                /\ now - sessions[v].created_at <= session_max_age_minutes )
         => ( /\ result'[u] = "RuntimeError"
              /\ pc'[u] = "idle"
              /\ sessions' = sessions
              /\ contexts_open' = contexts_open
              /\ pages_open' = pages_open )]_vars

\* a user was refused with the max-sessions error and the pool is still full
C2_Witness ==
    \E u \in Users :
        /\ result[u] = "RuntimeError"
        /\ pc[u] = "idle"
        /\ u \notin DOMAIN sessions
        /\ Cardinality(DOMAIN sessions) = max_sessions
        /\ \A v \in DOMAIN sessions :
             /\ now - sessions[v].last_activity <= idle_timeout_minutes
             /\ now - sessions[v].created_at <= session_max_age_minutes

\* C3: at the moment shutdown() returns the pool holds no sessions and no
\* browser, whatever get_session calls were issued before or during it.
C3_ShutdownLeavesPoolEmpty ==
    [][(life # "done" /\ life' = "done")
         => (sessions' = EmptySessions /\ ~browser' /\ contexts_open' = {})]_vars

\* C4: two distinct users never map to the same browser context or page.
C4_NoSharedContext ==
    \A u, v \in DOMAIN sessions :
        u # v => /\ sessions[u].context # sessions[v].context
                 /\ sessions[u].page # sessions[v].page

\* two users hold sessions at the same time
C4_Witness ==
    \E u, v \in DOMAIN sessions : u # v /\ pc[u] = "idle" /\ pc[v] = "idle"

\* C5: every background scrape holds a pool session of its user while its
\* scraper runs, so the scrapers running at the same time for distinct users
\* never outnumber max_sessions.
C5_TaskHoldsPoolSession ==
    /\ \A id \in ScrapeIds : scraper_browser[id] => id \in DOMAIN sessions
    /\ Cardinality({id \in ScrapeIds : scraper_browser[id]}) <= max_sessions

\* C6: a background task in which no browser operation, navigation,
\* collection or extraction raised ends with status completed, percent 100
\* and the pipeline's records as final_results.
C6_CleanRunCompletes ==
    \A id \in ScrapeIds :
        (task_pc[id] = "done" /\ ~op_failed[id])
        => /\ active_scrapes[id].status = "completed"
           /\ active_scrapes[id].progress_percent = 100
           /\ active_scrapes[id].final_results = Some(task_results[id])

\* C7: every scrape id handed out by scrape-async eventually has status
\* completed or failed, whatever the background task raises.
C7_EventuallyTerminal ==
    \A id \in ScrapeIds :
        (id \in DOMAIN active_scrapes)
        ~> (id \in DOMAIN active_scrapes /\ active_scrapes[id].status \in Terminal)

\* a task whose scrape call raised has ended and its scrape is failed
C7_Witness ==
    \E id \in ScrapeIds :
        /\ task_pc[id] = "done"
        /\ task_exc[id] = "TypeError"
        /\ active_scrapes[id].status = "failed"
        /\ active_scrapes[id].error_message = Some("TypeError")

C9_StatusNeverBackward ==
    [][\A id \in TrackerIds :
         LET rank == [st \in Statuses |->
                        CASE st = "starting" -> 0
                          [] st = "scrolling" -> 1
                          [] st = "extracting" -> 2
                          [] OTHER -> 3]
         IN  (id \in DOMAIN active_scrapes /\ id \in DOMAIN active_scrapes')
             => rank[active_scrapes'[id].status] >= rank[active_scrapes[id].status]]_vars

\* C10: for one scrape id, progress_percent never decreases from one update
\* of the scrape to the next while its status is not terminal.
C10_PercentNeverDecreases ==
    [][\A id \in TrackerIds :
         ( /\ id \in DOMAIN active_scrapes
           /\ id \in DOMAIN active_scrapes'
           /\ active_scrapes[id].status \notin Terminal )
         => active_scrapes'[id].progress_percent >= active_scrapes[id].progress_percent]_vars

\* a tracked scrape is part-way through extraction after at least two
\* scroll updates
C10_Witness ==
    \E id \in DOMAIN active_scrapes :
        /\ scraper.progress_scrape_id = id
        /\ active_scrapes[id].status = "extracting"
        /\ active_scrapes[id].scrolls_done >= 2
        /\ active_scrapes[id].progress_percent > 30
        /\ active_scrapes[id].progress_percent < 95

\* C11: in every request of scrape-async the seen-set handed to the pipeline
\* (and counted in the response as seen_places_count) is the set of place ids
\* the history store holds for the user and the query, so it is not empty
\* when the user has recorded places for the query
C11_SeenSetIsTheQuerysHistory ==
    \A id \in ScrapeIds :
      task_pc[id] = "created" /\ db_up =>
        task_args[id].seen_places
          = PlacesHeldFor(user_places, id, task_args[id].query)

\* C12: no record a scrape returns has a place_id that belongs to the
\* seen_places set the scrape was called with
C12_ReturnedRecordsAreUnseen ==
    \A i \in DOMAIN scraper.results :
      scraper.results[i] \notin scraper.seen_places

\* a scrape called with seen places has returned records, and the page showed
\* the card of a seen place before the card of a returned one
C12_Witness ==
    /\ scraper.pc = "returned"
    /\ scraper.results # <<>>
    /\ \E p \in scraper.seen_places :
         \E i \in DOMAIN scraper.results : p < scraper.results[i]

\* C13: the number of records scrape returns never exceeds target_count
C13_AtMostTargetCount ==
    scraper.pc = "returned" => Len(scraper.results) <= scraper.target_count

\* a tracked scrape kept more records than target_count and returned
\* target_count of them
C13_Witness ==
    /\ scraper.pc = "returned"
    /\ Len(scraper.results) = scraper.target_count
    /\ \E id \in DOMAIN active_scrapes :
         /\ scraper.progress_scrape_id = id
         /\ active_scrapes[id].cards_extracted > scraper.target_count
         /\ active_scrapes[id].unique_results = scraper.target_count

\* C14: once a background scrape has run with no failure of the browser or
\* of the database, the task has updated the cursor of its user and query,
\* and the cursor's cards_collected is the count the scrape resumed from
\* plus the number of cards it collected
C14_CleanRunUpdatesCursor ==
    \A id \in ScrapeIds :
      (task_pc[id] = "done" /\ ~op_failed[id] /\ db_up) =>
        /\ "cursor" \in persisted[id]
        /\ \E r \in UpdateMatches(cursors, id, task_args[id].query) :
             r.cards_collected =
               Len(task_results[id])
               + (IF task_args[id].cursor_data = None THEN 0
                  ELSE (CHOOSE c \in task_args[id].cursor_data : TRUE).cards_collected)

\* C15: when scrape-async found a cursor with cards_collected > 0, the
\* pipeline of the task began collecting at the cursor's
\* last_scroll_position
C15_ResumesAtCursorPosition ==
    \A id \in ScrapeIds :
      (/\ task_pc[id] = "done"
       /\ ~op_failed[id]
       /\ task_args[id].cursor_data # None) =>
        \E c \in task_args[id].cursor_data :
          task_origin[id] = Some(c.last_scroll_position)

\* C16: the cursor table holds at most one row for one user and query hash
C16_OneRowPerUserAndHash ==
    \A r1 \in cursors : \A r2 \in cursors :
      (r1.user_id = r2.user_id /\ r1.query_hash = r2.query_hash) => r1 = r2

\* the fields of the row equal those the payload gives; an argument left
\* out (None) gives none
FieldsMatch(row, u) ==
    /\ row.cards_collected = u.cards_collected
    /\ row.last_scroll_position = u.last_scroll_position
    /\ u.last_place_id # None => row.last_place_id = u.last_place_id
    /\ u.last_card_index # None => row.last_card_index = u.last_card_index
    /\ u.total_scrolls # None => Some(row.total_scrolls_performed) = u.total_scrolls
    /\ u.visible_card_count # None =>
         Some(row.last_visible_card_count) = u.visible_card_count
    /\ u.cursor_data # None => row.cursor_data = u.cursor_data

\* C17: from any table, create_cursor(user, q), then update_cursor(user, q, u),
\* then get_cursor(user, q) returns a cursor whose fields equal those of u
C17_CreateUpdateGetRoundTrip ==
    \A user \in CursorUsers, q \in CursorQueries, u \in UpdatePayloads :
      \A updated \in update_cursor(create_cursor(cursors, user, q, now),
                                   user, q, u, now) :
        \A found \in get_cursor(updated, user, q, now) :
          /\ found # None
          /\ \A row \in found : FieldsMatch(row, u)

\* C18: from any table, get_cursor(user, q) after clear_cursor(user, q)
\* returns None
C18_ClearThenGetReturnsNone ==
    \A user \in CursorUsers, q \in CursorQueries :
      get_cursor(clear_cursor(cursors, user, q), user, q, now) = {None}

\* C19: get_cursor never returns a row whose expires_at is earlier than now,
\* and cleanup_expired_cursors deletes exactly the rows whose expires_at is
\* earlier than now and returns their number
C19_ExpiredInvisibleAndSwept ==
    [][/\ (cursor_ret'.op = "get" /\ now' = now /\ cursors' = cursors) =>
            \A row \in cursor_ret'.value : ~(row.expires_at < now)
       /\ (cursor_ret'.op = "cleanup" /\ now' = now) =>
            /\ cursors' = {row \in cursors : ~(row.expires_at < now)}
            /\ cursor_ret'.value = Some(Cardinality(cursors \ cursors'))]_vars

\* cleanup_expired_cursors has just deleted at least one row and has left a
\* row that is not expired
C19_Witness ==
    /\ cursor_ret.op = "cleanup"
    /\ \E n \in cursor_ret.value : n >= 1
    /\ \E row \in cursors : ~(row.expires_at < now)

\* C20: for queries q1 and q2 with the same normal form, when a cursor of
\* the user is stored for q1, get_cursor(user, q2) returns that row and
\* update_cursor(user, q2, ...) updates that row and adds none
C20_SameNormalFormSameRow ==
    \A user \in CursorUsers, q1 \in CursorQueries, q2 \in CursorQueries :
      NormalFormOf[q1] = NormalFormOf[q2] =>
        \A row \in ExactMatches(cursors, user, q1, now) :
          /\ get_cursor(cursors, user, q2, now) = {Some(row)}
          /\ \A u \in UpdatePayloads :
               update_cursor(cursors, user, q2, u, now)
                 = {(cursors \ {row}) \cup {Updated(row, u, now)}}

\* the identity the claim gives a record: its place_id, or its cid when the
\* place_id is absent
Key(r) ==
    IF Present(r.place_id) THEN Some(<<"place_id", LowerStr(Val(r.place_id))>>)
    ELSE IF Present(r.cid) THEN Some(<<"cid", Val(r.cid)>>)
    ELSE None
Keys(records) == UNION {Key(records[i]) : i \in DOMAIN records}

\* the records a reset service accepts when fed the sequence
RECURSIVE AcceptedFrom(_, _)
AcceptedFrom(svc, records) ==
    IF records = <<>> THEN <<>>
    ELSE LET a == add_place(svc, Head(records))
         IN  (IF a.ret THEN <<Head(records)>> ELSE <<>>)
               \o AcceptedFrom(a.service, Tail(records))
Reordered(records) ==
    {[i \in DOMAIN records |-> records[p[i]]] : p \in Permutations(DOMAIN records)}

\* every record carries a place_id or a cid, and a cid belongs to one place:
\* records with the same cid have the same identity
Identified(records) ==
    /\ \A i \in DOMAIN records : Key(records[i]) # None
    /\ \A i, j \in DOMAIN records :
         (Present(records[i].cid) /\ records[i].cid = records[j].cid)
           => Key(records[i]) = Key(records[j])

\* C21: whatever identified records are fed to a reset service, the accepted
\* records are one per distinct place_id (or cid where the place_id is
\* absent), and every order of feeding accepts the same set
C21_AcceptedAreTheDistinctIds ==
    LET fed == dedup_run.fed
        accepted == dedup_run.accepted
    IN  Identified(fed) =>
          /\ Keys(accepted) = Keys(fed)
          /\ Len(accepted) = Cardinality(Keys(fed))
          /\ \A other \in Reordered(fed) :
               Keys(AcceptedFrom(DedupFresh, other)) = Keys(accepted)

\* C22: the collection loop goes on only while fewer than STALE_SCROLL_LIMIT
\* iterations in a row added no card, and when it stops for staleness the
\* scrolls performed are the iteration that last added a card plus
\* STALE_SCROLL_LIMIT
C22_StaleExitAfterLimit ==
    /\ scraper.pc = "scroll" => scraper.stale_count < STALE_SCROLL_LIMIT
    /\ scraper.stopped = "stale" =>
         scraper.scrolls_performed = scraper.last_productive + STALE_SCROLL_LIMIT

\* the loop added cards, then stopped for staleness
C22_Witness ==
    /\ scraper.pc = "collected"
    /\ scraper.stopped = "stale"
    /\ scraper.last_productive > 0
    /\ scraper.scrolls_performed < scraper.max_scrolls

\* C23: the collection loop never goes on to another iteration with 15 or
\* more consecutive seen duplicates, whatever it has collected and however
\* many scrolls remain
C23_EarlyExitOnSeenRun ==
    /\ scraper.pc = "scroll" =>
         scraper.consecutive_seen_duplicates < max_consecutive_seen
    /\ scraper.stopped = "seen" =>
         /\ scraper.pc = "collected"
         /\ scraper.consecutive_seen_duplicates >= max_consecutive_seen

\* the loop stopped on the run of seen cards, short of its target and of
\* max_scrolls
C23_Witness ==
    /\ scraper.stopped = "seen"
    /\ Len(scraper.card_links) <
         CollectionTarget(scraper.target_count, scraper.seen_places)
    /\ scraper.scrolls_performed < scraper.max_scrolls
    /\ scraper.scrolls_performed < STALE_SCROLL_LIMIT

\* C24: during and after card collection skipped_duplicates is the number of
\* distinct seen place ids the loop has met
C24_SkippedCountsEachSeenIdOnce ==
    scraper.pc \in {"scroll", "collected"} =>
      scraper.skipped_duplicates = Cardinality(scraper.seen_met)

\* the tasks inside the async with of the semaphore
InProgress == {i \in CardTasks :
                 extraction.task_pc[i] \in {"context", "page", "details", "closing"}}

Returned(value) == {i \in CardTasks : extraction.task_pc[i] = "done"
                                      /\ extraction.returned[i] = value}

\* C26: every task returns to gather with the details or with None, whatever
\* failed in it; extraction_errors counts the cards that failed and gave no
\* record, and the others are counted as extracted
C26_FailedCardsAreCounted ==
    /\ \A i \in CardTasks : extraction.task_pc[i] = "done" =>
                              extraction.returned[i] \in {"details", "None"}
    /\ extraction.extraction_errors = Cardinality(Returned("None"))
    /\ extraction.extracted_count = Cardinality(Returned("details"))

IsStale(id) == id \in DOMAIN active_scrapes /\ Stale(active_scrapes, id)

\* C27: a progress entry that has had no update for more than an hour is
\* eventually gone from the tracker's map (or updated again), with no client
\* asking for the cleanup
C27_StaleEntriesAreReaped == \A id \in ScrapeIds : IsStale(id) ~> ~IsStale(id)

\* the number of times the list names the place
Occurrences(place_ids, place_id) ==
    Cardinality({i \in DOMAIN place_ids : place_ids[i] = place_id})

\* C28: the table never holds two rows with the same (user_id, place_id), and
\* a call of record_scraped_places that did not fail leaves, for every row the
\* user already had for a listed place, that same row with scraped_count
\* raised by one per recording, last_seen at the time of the call and
\* first_seen as it was; it adds one row per listed place the user had not
\* and touches no other row
C28_UpsertKeepsOneRow ==
    /\ \A r1, r2 \in user_places :
         r1.user_id = r2.user_id /\ r1.place_id = r2.place_id => r1 = r2
    /\ history_ret.value # None /\ ~history_ret.raised =>
         LET before == history_ret.before
             mine == Recorded(before, history_ret.user_id, history_ret.place_ids)
             new == {p \in Range(history_ret.place_ids) :
                       RowsOf(before, history_ret.user_id, p) = {}}
         IN  /\ \A r \in mine :
                  [r EXCEPT !.scraped_count =
                              @ + Occurrences(history_ret.place_ids, r.place_id),
                            !.last_seen = history_ret.at] \in user_places
             /\ before \ mine \subseteq user_places
             /\ Cardinality(user_places) = Cardinality(before) + Cardinality(new)

\* a place the user recorded earlier, under another query, is recorded again
\* after the clock advanced, and another user holds the same place
C28_Witness ==
    /\ history_ret.value # None /\ ~history_ret.raised
    /\ \E r \in history_ret.before :
         /\ r.user_id = history_ret.user_id
         /\ r.place_id \in Range(history_ret.place_ids)
         /\ r.first_seen < history_ret.at
         /\ \E r2 \in user_places :
              /\ r2.user_id = r.user_id /\ r2.place_id = r.place_id
              /\ r2.scraped_count = r.scraped_count + 1
         /\ \E o \in user_places : o.user_id # r.user_id /\ o.place_id = r.place_id

\* C29: every background task of scrape-async that has ended, completed or
\* failed, while the database answers, has left its ScrapeSession row in the
\* database (created and then marked completed or failed)
C29_EveryAttemptLeavesASession ==
    \A id \in ScrapeIds :
      task_pc[id] = "done" /\ db_up => "session" \in persisted[id]

\* C30: when get_session ends with an error in its creation step, every
\* context it opened is closed again by the time the caller gets the error
\* (the browser has no context it had not before), and no session is stored
\* for the user
C30_PartialSessionIsTornDown ==
    [][\A u \in Users :
         (pc[u] = "get_create" /\ pc'[u] = "idle" /\ result'[u] = "error")
         => /\ contexts_open' \subseteq contexts_open
            /\ u \notin DOMAIN sessions']_vars

\* the least integer not below n / d
CeilDiv(n, d) == (n + d - 1) \div d
Max(a, b) == IF a > b THEN a ELSE b

\* C31: the collection target scrape() settles is ceil(target_count * 1.5)
\* when seen_places is not empty and ceil(target_count * 1.2) when it is
C31_CollectionTargetIsCeiling ==
    sizing.target_count \in 1..500 =>
      sizing.collection_target =
        IF sizing.seen_places # {} THEN CeilDiv(sizing.target_count * 15, 10)
                                   ELSE CeilDiv(sizing.target_count * 12, 10)

\* C33: with max_scrolls not supplied the iteration bound scrape() settles is
\* ceil(target_count / 5) clamped to 20..150
C33_ScrollBoundIsCeilingClamped ==
    sizing.target_count > 0 /\ sizing.max_scrolls = None =>
      sizing.scroll_bound = Min(Max(20, CeilDiv(sizing.target_count, 5)), 150)

\* C33 as the code has it: with max_scrolls not supplied the bound is
\* target_count / 5 rounded down, clamped to 20..150; a supplied max_scrolls
\* is used as it is
C33_ScrollBoundIsFloorClamped ==
    sizing.target_count > 0 =>
      sizing.scroll_bound =
        IF sizing.max_scrolls = None
          THEN Min(Max(20, sizing.target_count \div 5), 150)
          ELSE CHOOSE n \in sizing.max_scrolls : TRUE

\* a call without max_scrolls whose target_count is no multiple of 5 and
\* whose bound is neither the minimum nor the cap
C33_Witness ==
    /\ sizing.max_scrolls = None
    /\ sizing.target_count % 5 # 0
    /\ sizing.scroll_bound > 20 /\ sizing.scroll_bound < 150

\* "  the best dentist near amritsar  "
BestDentistQuery == Phrase(<<The, Best, Dentist, Near, Amritsar>>, 2)

\* C32: normalize("  the best dentist near amritsar  ") returns
\* "best dentist amritsar near"
C32_ServiceTokensKeepQueryOrder ==
    normalized.query = BestDentistQuery =>
      normalized.value = Some(Join(<<Best, Dentist, Amritsar, Near>>))

\* C32 as the code has it: the stop word is dropped, the service tokens come
\* first in alphabetical order and the location indicator last, so the call
\* returns "amritsar best dentist near", as does every other order of the
\* same words
C32_ServiceTokensAreSorted ==
    normalized.value # None =>
      normalized.value = Some(Join(<<Amritsar, Best, Dentist, Near>>))

\* normalize was called on "  the best dentist near amritsar  "
C32_Witness == normalized.query = BestDentistQuery /\ normalized.value # None

\* C34: when release_session returns (also inside reset_session), its user
\* has no session in the pool, whether or not page.close() or
\* context.close() raised
C34_ReleasedUserHasNoSession ==
    [][\A u \in Users :
         (pc[u] \in {"release_locked", "reset_locked"}
            /\ pc'[u] # pc[u])
         => u \notin DOMAIN sessions']_vars

\* release_session has returned to a user whose session was closed with an
\* error of page.close() or context.close()
C34_Witness ==
    \E u \in Users :
      /\ u \in close_faults.raised
      /\ pc[u] = "idle" /\ result[u] = "none"
      /\ u \notin DOMAIN sessions

\* the thread is inside an update or a cleanup that writes or deletes the
\* entry
Touches(t, id) ==
    \/ threads[t].pc = "holding" /\ threads[t].id = id
    \/ threads[t].pc = "deleting" /\ id \in threads[t].stale_ids

\* C35: the tracker's operations exclude each other: while a thread is
\* inside an update of an entry (between its read of the map and its last
\* write), no other thread is inside an update or a cleanup of that entry
C35_OperationsExcludeEachOther ==
    \A t, o \in ThreadIds :
      t # o /\ threads[t].pc = "holding" => ~Touches(o, threads[t].id)

\* C36: a scrape's progress status never goes from completed to failed nor
\* from failed to completed
C36_TerminalStatusIsFinal ==
    [][\A id \in DOMAIN active_scrapes :
         id \in DOMAIN active_scrapes' =>
           /\ ~(active_scrapes[id].status = "completed"
                 /\ active_scrapes'[id].status = "failed")
           /\ ~(active_scrapes[id].status = "failed"
                 /\ active_scrapes'[id].status = "completed")]_vars

\* C37: whenever the status of a scrape that produced records is completed,
\* its final_results are stored, so get_scrape_results does not answer with
\* an empty list
C37_CompletedHasResults ==
    \A id \in DOMAIN active_scrapes :
      (/\ active_scrapes[id].status = "completed"
       /\ scraper.progress_scrape_id = id
       /\ scraper.results # <<>>)
      => active_scrapes[id].final_results = Some(scraper.results)

\* C38: the list _extract_details_parallel returns, which scrape trims, names
\* the cards whose task returned a record in the order the cards were
\* collected, whatever order the tasks finished in; so a trimming to any
\* target_count keeps the earliest-collected of them
C38_ResultsInCollectionOrder ==
    extraction.gathered =>
      /\ Range(extraction.results) = Returned("details")
      /\ \A k \in 1..(Len(extraction.results) - 1) :
            extraction.results[k] < extraction.results[k + 1]
      /\ \A target_count \in 0..MaxCards :
            \A i \in Range(Trimmed(extraction.results, target_count)) :
              \A j \in Returned("details")
                       \ Range(Trimmed(extraction.results, target_count)) : i < j

\* gather has returned two records or more, and the task of a later card
\* finished before the task of an earlier card
C38_Witness ==
    /\ extraction.gathered
    /\ Len(extraction.results) >= 2
    /\ \E a, b \in DOMAIN extraction.finish_order :
         /\ a < b
         /\ extraction.finish_order[a] > extraction.finish_order[b]
         /\ {extraction.finish_order[a], extraction.finish_order[b]}
              \subseteq Returned("details")

\* C39: once the extraction tasks of a scrape have all returned, every
\* browser context they created has been closed, also the context of a task
\* whose new_page() raised right after _create_context() returned
C39_NoContextLeftOpen ==
    extraction.gathered =>
      extraction.contexts = {} /\ extraction.orphans = 0

\* C40: a reset_session that closed the session of its user never ends with
\* the error of the session limit, whatever other users' calls of
\* get_session run between its release and its get
C40_ResetNeverMeetsTheLimit ==
    \A u \in Users :
      u \in resets /\ pc[u] = "idle" => result[u] # "RuntimeError"
====
